---- MODULE Spec2Model ----
(***************************************************************************)
(* A model of tmt_core: the SMC session (smc/mod.rs), its byte codec       *)
(* (smc/conv.rs), the Fan accessor and the Apple components built on it    *)
(* (apple.rs, lib.rs).                                                     *)
(*                                                                         *)
(* An f64 is modelled as an integer number of 1/Scale units, so that the   *)
(* fixed-point encodings (fpe2: 1/4, sp78: 1/256) and their truncation are *)
(* exact.  An SmcBytes buffer is modelled by its first BufLen bytes.       *)
(***************************************************************************)
EXTENDS Integers, Sequences, FiniteSets, TLC

VARIABLES
    session,    \* state of the privileged handle: Disconnected, Open, Closed
    strong,     \* strong count of the Arc<SmcRepr>
    closes,     \* number of IOServiceClose calls made so far
    smcs,       \* number of live Smc values (Smc::new and its clones)
    mutex,      \* thread holding the Mutex<io_connect_t>, 0 when free
    hw,         \* the driver's key store: key -> [present, tag, size, bytes]
    th,         \* per thread: the running operation, the objects it owns, its last result
    opsLeft,    \* operations the environment may still start
    tui,        \* the terminal program (main.rs): its threads, its channel, its exit
    hwmon,      \* a Linux hwmon chip (linux.rs): the clock, the sensor, its files
    codec       \* a conversion of the byte codec (conv.rs): its input and results

vars == <<session, strong, closes, smcs, mutex, hw, th, opsLeft, tui, hwmon, codec>>

\* the variables of the SMC session, and the others
smcVars == <<session, strong, closes, smcs, mutex, hw, th, opsLeft>>

---------------------------------------------------------------------------
(* Bounds of the model *)

\* fan ids are 0..MaxFanId
MaxFanId == 1
\* operations started after the objects are constructed
MaxOps == 2
\* clones of the Smc value
MaxSmcs == 2

Threads == {1, 2}
FanIds == 0..MaxFanId

\* units per 1.0 of an f64: fine enough for fpe2 (1/4) and sp78 (1/256)
Scale == 4 * 256

---------------------------------------------------------------------------
(* smc/mod.rs: constants *)

kIOReturnSuccess == 0
\* iokit_common_err!(0x2c1) = (0x38 & 0x3f) << 26 | (0 & 0xfff) << 14 | 0x2c1, as i32
\* (the shift leaves the sign bit set: 0x38 << 26 is (0x38 - 0x40) * 2^26 as an i32)
kIOReturnNotPrivileged == ((56 - 64) * 67108864) + 705
\* another call status (kIOReturnError), an input of the model
kIOReturnError == ((56 - 64) * 67108864) + 700

SmcResultSuccess == 0
SmcResultKeyNotFound == 132
\* some other result byte, an input of the model
SmcResultOther == 1

TYPE_FLAG == "flag"
TYPE_I8 == "si8 "
TYPE_U8 == "ui8 "
TYPE_I16 == "si16"
TYPE_U16 == "ui16"
TYPE_I32 == "si32"
TYPE_U32 == "ui32"
TYPE_FPE2 == "fpe2"
TYPE_SP78 == "sp78"
TYPE_FAN == "{fds"
TYPE_FLT == "flt "

DefaultMinSpeed == 2500 * Scale
DefaultMaxSpeed == 4000 * Scale

---------------------------------------------------------------------------
(* Results: Ok(val), Err(SmcError), or a panic unwinding the thread *)

NoKey == ""

Ok(v) == [tag |-> "Ok", val |-> v, kind |-> "", key |-> NoKey, io |-> 0, smc |-> 0]
Err(kind, key, io, smcres) ==
    [tag |-> "Err", val |-> 0, kind |-> kind, key |-> key, io |-> io, smc |-> smcres]
Panic == [tag |-> "Panic", val |-> 0, kind |-> "", key |-> NoKey, io |-> 0, smc |-> 0]
NoResult == [tag |-> "None", val |-> 0, kind |-> "", key |-> NoKey, io |-> 0, smc |-> 0]

IsOk(r) == r.tag = "Ok"
IsErr(r) == r.tag = "Err"
IsPanic(r) == r.tag = "Panic"

---------------------------------------------------------------------------
(* Arithmetic helpers *)

RECURSIVE Pow2(_)
Pow2(n) == IF n <= 0 THEN 1 ELSE 2 * Pow2(n - 1)

\* floor(log2 n) for n >= 1
RECURSIVE Log2(_)
Log2(n) == IF n <= 1 THEN 0 ELSE 1 + Log2(n \div 2)

Abs(x) == IF x < 0 THEN -x ELSE x

\* the quotient rounded toward zero, as a float-to-integer `as` cast truncates
TruncDiv(a, b) == IF a >= 0 THEN a \div b ELSE -((-a) \div b)

\* `as u16` / `as i16` of a float saturate
SatU16(x) == IF x < 0 THEN 0 ELSE IF x > 65535 THEN 65535 ELSE x
SatI16(x) == IF x < -32768 THEN -32768 ELSE IF x > 32767 THEN 32767 ELSE x

\* the bits of an i16 as an unsigned number, and back
I16Bits(x) == IF x < 0 THEN x + 65536 ELSE x
I16OfBits(u) == IF u >= 32768 THEN u - 65536 ELSE u

BitSet(mask, i) == (mask \div Pow2(i)) % 2 = 1

\* the bits of an i8 as a byte, and back
I8Bits(x) == IF x < 0 THEN x + 256 ELSE x
I8OfBits(u) == IF u >= 128 THEN u - 256 ELSE u

Whitespace == {" ", "\n", "\t"}

RECURSIVE Trim(_)
\* str::trim
Trim(s) ==
    IF Len(s) = 0 THEN s
    ELSE IF SubSeq(s, 1, 1) \in Whitespace THEN Trim(SubSeq(s, 2, Len(s)))
    ELSE IF SubSeq(s, Len(s), Len(s)) \in Whitespace THEN Trim(SubSeq(s, 1, Len(s) - 1))
    ELSE s

---------------------------------------------------------------------------
(* smc/conv.rs: the byte codec *)

BufLen == 8

\* SmcBytes::default() with the given leading bytes copied in
PutBytes(s) == [i \in 1..BufLen |-> IF i <= Len(s) THEN s[i] ELSE 0]

ZeroBytes == PutBytes(<<>>)

\* u16::to_be followed by memcpy of 2 bytes: big-endian byte order in the buffer
U16ToBe(v) == <<v \div 256, v % 256>>
U16FromBe(bytes) == bytes[1] * 256 + bytes[2]

\* (x as f32).to_ne_bytes() on a little-endian host, x in units of 1/Scale
F32ToNeBytes(x) ==
    IF x = 0 THEN <<0, 0, 0, 0>>
    ELSE LET n == Abs(x)
             k == Log2(n)
             e == (k - Log2(Scale)) + 127
             mant == IF k <= 23 THEN (n - Pow2(k)) * Pow2(23 - k)
                     ELSE (n \div Pow2(k - 23)) - Pow2(23)
             sign == IF x < 0 THEN 1 ELSE 0
         IN <<mant % 256,
              (mant \div 256) % 256,
              (e % 2) * 128 + (mant \div 65536),
              sign * 128 + (e \div 2)>>

\* f32::from_ne_bytes on a little-endian host, in units of 1/Scale
F32FromNeBytes(bytes) ==
    LET sign == bytes[4] \div 128
        e == (bytes[4] % 128) * 2 + (bytes[3] \div 128)
        mant == (bytes[3] % 128) * 65536 + bytes[2] * 256 + bytes[1]
        sh == (e - 127 - 23) + Log2(Scale)
        mag == IF e = 0 THEN 0
               ELSE IF sh >= 0 THEN (Pow2(23) + mant) * Pow2(sh)
               ELSE (Pow2(23) + mant) \div Pow2(-sh)
    IN IF sign = 1 THEN -mag ELSE mag

\* impl SmcType for bool
BoolToSmc(b, dt) ==
    IF dt.id = TYPE_FLAG \/ dt.id = TYPE_U8
    THEN Ok(PutBytes(<<IF b THEN 1 ELSE 0>>))
    ELSE Panic

BoolFromSmc(dt, bytes) ==
    IF dt.id = TYPE_FLAG \/ dt.id = TYPE_U8
    THEN Ok(bytes[1] # 0)
    ELSE Panic

\* impl SmcType for u8
U8ToSmc(v, dt) ==
    IF dt.id = TYPE_U8 THEN Ok(PutBytes(<<v>>)) ELSE Panic

U8FromSmc(dt, bytes) ==
    IF dt.id = TYPE_U8 THEN Ok(bytes[1]) ELSE Panic

\* impl SmcType for u16
U16ToSmc(v, dt) ==
    IF dt.id = TYPE_U16 THEN Ok(PutBytes(U16ToBe(v))) ELSE Panic

U16FromSmc(dt, bytes) ==
    IF dt.id = TYPE_U8 THEN U8FromSmc(dt, bytes)
    ELSE IF dt.id = TYPE_U16 THEN Ok(U16FromBe(bytes))
    ELSE Panic

\* u32::to_be followed by memcpy of 4 bytes
U32ToBe(v) == <<v \div 16777216, (v \div 65536) % 256, (v \div 256) % 256, v % 256>>
U32FromBe(bytes) == ((bytes[1] * 256 + bytes[2]) * 256 + bytes[3]) * 256 + bytes[4]

\* impl SmcType for u32
U32ToSmc(v, dt) ==
    IF dt.id = TYPE_U32 THEN Ok(PutBytes(U32ToBe(v))) ELSE Panic

U32FromSmc(dt, bytes) ==
    IF dt.id = TYPE_U8 THEN U8FromSmc(dt, bytes)
    ELSE IF dt.id = TYPE_U16 THEN U16FromSmc(dt, bytes)
    ELSE IF dt.id = TYPE_U32 THEN Ok(U32FromBe(bytes))
    ELSE Panic

\* impl SmcType for i8: one byte copied as it is
I8ToSmc(v, dt) ==
    IF dt.id = TYPE_I8 THEN Ok(PutBytes(<<I8Bits(v)>>)) ELSE Panic

I8FromSmc(dt, bytes) ==
    IF dt.id = TYPE_I8 THEN Ok(I8OfBits(bytes[1])) ELSE Panic

\* impl SmcType for i16
I16ToSmc(v, dt) ==
    IF dt.id = TYPE_I16 THEN Ok(PutBytes(U16ToBe(I16Bits(v)))) ELSE Panic

I16FromSmc(dt, bytes) ==
    IF dt.id = TYPE_I16 THEN Ok(I16OfBits(U16FromBe(bytes))) ELSE Panic

\* i32::to_be followed by memcpy of 4 bytes (two's complement), and back
I32ToBe(v) == <<(v \div 16777216) % 256, (v \div 65536) % 256, (v \div 256) % 256, v % 256>>
I32FromBe(bytes) == ((I8OfBits(bytes[1]) * 256 + bytes[2]) * 256 + bytes[3]) * 256 + bytes[4]

\* impl SmcType for i32
I32ToSmc(v, dt) ==
    IF dt.id = TYPE_I32 THEN Ok(PutBytes(I32ToBe(v))) ELSE Panic

I32FromSmc(dt, bytes) ==
    IF dt.id = TYPE_I32 THEN Ok(I32FromBe(bytes)) ELSE Panic

\* the characters of the bytes a fan name is made of in the model
AsciiBytes == {32, 70, 76, 97, 110}
Ascii(b) ==
    CASE b = 32 -> " " [] b = 70 -> "F" [] b = 76 -> "L" [] b = 97 -> "a" [] b = 110 -> "n"

RECURSIVE StrFrom(_, _, _)
\* the bytes i..last of the buffer up to the first NUL, as a string
StrFrom(bytes, i, last) ==
    IF i > last \/ bytes[i] = 0 THEN ""
    ELSE Ascii(bytes[i]) \o StrFrom(bytes, i + 1, last)

\* read_string(buffer, max), the buffer starting at byte `from` (1-based)
ReadString(bytes, from, max) == Trim(StrFrom(bytes, from, from + max - 1))

\* impl SmcType for RawFan
RawFanToSmc(v, dt) == Panic

RawFanFromSmc(dt, bytes) ==
    IF dt.id = TYPE_FAN THEN Ok([name |-> ReadString(bytes, 5, dt.size - 4)])
    ELSE Panic

F64ToSmcRounds(v, dt) ==
    IF dt.id = TYPE_FPE2 THEN
        IF v < 0 THEN Panic
        ELSE Ok(PutBytes(U16ToBe(SatU16(TruncDiv(2 * v * 4 + Scale, 2 * Scale)))))
    ELSE IF dt.id = TYPE_SP78 THEN
        Ok(PutBytes(U16ToBe(I16Bits(SatI16(
            TruncDiv(2 * v * 256 + (IF v < 0 THEN -Scale ELSE Scale), 2 * Scale))))))
    ELSE IF dt.id = TYPE_FLT THEN
        Ok(PutBytes(F32ToNeBytes(v)))
    ELSE Panic

\* def_float!(f64)
F64ToSmc(v, dt) ==
    IF dt.id = TYPE_FPE2 THEN
        IF v < 0 THEN Panic
        ELSE Ok(PutBytes(U16ToBe(SatU16(TruncDiv(v * 4, Scale)))))
    ELSE IF dt.id = TYPE_SP78 THEN
        Ok(PutBytes(U16ToBe(I16Bits(SatI16(TruncDiv(v * 256, Scale))))))
    ELSE IF dt.id = TYPE_FLT THEN
        Ok(PutBytes(F32ToNeBytes(v)))
    ELSE Panic

F64FromSmc(dt, bytes) ==
    IF dt.id = TYPE_FPE2 THEN Ok(U16FromBe(bytes) * (Scale \div 4))
    ELSE IF dt.id = TYPE_SP78 THEN Ok(I16OfBits(U16FromBe(bytes)) * (Scale \div 256))
    ELSE IF dt.id = TYPE_FLT THEN Ok(F32FromNeBytes(bytes))
    ELSE Panic

\* FanMode::from_bool
FanModeFromBool(b) == IF b THEN "Forced" ELSE "Auto"

\* impl SmcType for FanMode
FanModeToSmc(mode, dt) == BoolToSmc(mode = "Forced", dt)

FanModeFromSmc(dt, bytes) ==
    LET b == BoolFromSmc(dt, bytes)
    IN IF IsOk(b) THEN Ok(FanModeFromBool(b.val)) ELSE b

\* SmcType::to_smc / SmcType::from_smc dispatched on the logical type
ToSmc(ty, v, dt) ==
    CASE ty = "bool" -> BoolToSmc(v, dt)
      [] ty = "u8" -> U8ToSmc(v, dt)
      [] ty = "i8" -> I8ToSmc(v, dt)
      [] ty = "i16" -> I16ToSmc(v, dt)
      [] ty = "i32" -> I32ToSmc(v, dt)
      [] ty = "RawFan" -> RawFanToSmc(v, dt)
      [] ty = "u16" -> U16ToSmc(v, dt)
      [] ty = "u32" -> U32ToSmc(v, dt)
      [] ty = "f64" -> F64ToSmc(v, dt)
      [] ty = "FanMode" -> FanModeToSmc(v, dt)

FromSmc(ty, dt, bytes) ==
    CASE ty = "bool" -> BoolFromSmc(dt, bytes)
      [] ty = "u8" -> U8FromSmc(dt, bytes)
      [] ty = "i8" -> I8FromSmc(dt, bytes)
      [] ty = "i16" -> I16FromSmc(dt, bytes)
      [] ty = "i32" -> I32FromSmc(dt, bytes)
      [] ty = "RawFan" -> RawFanFromSmc(dt, bytes)
      [] ty = "u16" -> U16FromSmc(dt, bytes)
      [] ty = "u32" -> U32FromSmc(dt, bytes)
      [] ty = "f64" -> F64FromSmc(dt, bytes)
      [] ty = "FanMode" -> FanModeFromSmc(dt, bytes)

---------------------------------------------------------------------------
(* The driver's key store *)

\* fcc_format!("F{}Md", id) and the like
FanKey(id, suffix) == "F" \o ToString(id) \o suffix

KEY_FS == "FS! "
KEY_COUNT == "#KEY"

DataType(id, size) == [id |-> id, size |-> size]
NoInfo == DataType("", 0)

HwEntry(tag, size, bytes) ==
    [present |-> TRUE, tag |-> tag, size |-> size, bytes |-> bytes, volatile |-> FALSE]
HwSensor(tag, size) ==
    [present |-> TRUE, tag |-> tag, size |-> size, bytes |-> ZeroBytes, volatile |-> TRUE]
HwAbsent ==
    [present |-> FALSE, tag |-> "", size |-> 0, bytes |-> ZeroBytes, volatile |-> FALSE]

KeyPresent(k) == k \in DOMAIN hw /\ hw[k].present

\* the order in which the driver numbers its keys
KeyOrder == <<"#KEY", "PCPC", "TB1T", "TC0P", "TG0P", "TL0P", "Tp05">>

\* the keys the driver has, by index
PresentKeys(store) ==
    LET Has(k) == k \in DOMAIN store /\ store[k].present
    IN SelectSeq(KeyOrder, Has)

---------------------------------------------------------------------------
(* apple.rs: platforms and the sensor catalog *)

INTEL == Pow2(0)
M1 == Pow2(1)
M1_PRO == Pow2(2)
M1_MAX == Pow2(3)
M1_ULTRA == Pow2(4)
M2 == Pow2(5)
ALL_M1 == M1 + M1_PRO + M1_MAX + M1_ULTRA
APPLE_SILICON == ALL_M1 + M2
\* Platform::all()
PlatformAll == INTEL + APPLE_SILICON

RECURSIVE BitAnd(_, _)
BitAnd(a, b) ==
    IF a = 0 \/ b = 0 THEN 0
    ELSE (a % 2) * (b % 2) + 2 * BitAnd(a \div 2, b \div 2)

\* Platform::contains (bitflags): every bit of other is in self
PlatformContains(self, other) == BitAnd(self, other) = other

StartsWith(str, prefix) ==
    Len(str) >= Len(prefix) /\ SubSeq(str, 1, Len(prefix)) = prefix

\* read_platform, from the processor brand string
ReadPlatform(cpu_name) ==
    IF ~StartsWith(cpu_name, "Apple M") THEN INTEL
    ELSE LET rest == SubSeq(cpu_name, 8, Len(cpu_name))
         IN CASE rest = "1" -> M1
              [] rest = "1 Pro" -> M1_PRO
              [] rest = "1 Max" -> M1_MAX
              [] rest = "1 Ultra" -> M1_ULTRA
              [] rest = "2" -> M2
              [] OTHER -> INTEL

\* Sensor::cpu / gpu / sensor / system: the group names the component type
Sensor(group, key, name, kind, platforms) ==
    [key |-> key, name |-> name, group |-> group, kind |-> kind,
     platforms |-> platforms, average |-> FALSE, component_type |-> group]

\* Sensor::average
Average(sensor) == [sensor EXCEPT !.average = TRUE]

\* the catalog with the M2 entry of Tp05 marked for every Apple Silicon host
SensorsTp05Overlapping == <<
    Sensor("Cpu", "TC0P", "CPU proximity", "Temperature", PlatformAll),
    Sensor("Gpu", "TG0P", "GPU proximity", "Temperature", PlatformAll),
    Sensor("System", "TB1T", "Battery", "Temperature", INTEL),
    Sensor("System", "TL0P", "Display", "Temperature", PlatformAll),
    Average(Sensor("Cpu", "Tp05", "CPU performance core 2", "Temperature", ALL_M1)),
    Average(Sensor("Cpu", "Tp05", "CPU efficiency core 1", "Temperature", APPLE_SILICON)),
    Sensor("Sensor", "PCPC", "CPU Package", "Power", PlatformAll) >>

\* entries of SENSORS, in the order of the catalog
SENSORS == <<
    Sensor("Cpu", "TC0P", "CPU proximity", "Temperature", PlatformAll),
    Sensor("Gpu", "TG0P", "GPU proximity", "Temperature", PlatformAll),
    Sensor("System", "TB1T", "Battery", "Temperature", INTEL),
    Sensor("System", "TL0P", "Display", "Temperature", PlatformAll),
    Average(Sensor("Cpu", "Tp05", "CPU performance core 2", "Temperature", ALL_M1)),
    Average(Sensor("Cpu", "Tp05", "CPU efficiency core 1", "Temperature", M2)),
    Sensor("Sensor", "PCPC", "CPU Package", "Power", PlatformAll) >>

\* processor brand strings of the hosts
CpuNames == {"Intel(R) Core(TM) i7", "Apple M1 Pro", "Apple M2"}

---------------------------------------------------------------------------
(* Thread state.  A thread runs one operation at a time; an operation is a *)
(* sequence of key operations (read_key, write_key, key_information), each *)
(* one or two driver exchanges through call_driver.                        *)

NoFan == [id |-> -1, mode |-> "Auto", min_speed |-> 0, max_speed |-> 0]

NoKop == [kind |-> "none", ty |-> "", code |-> NoKey, data |-> 0,
          stage |-> "none", info |-> NoInfo, bytes |-> ZeroBytes]

NoReply == [status |-> 0, result |-> 0, key |-> NoKey, tag |-> "", size |-> 0,
            bytes |-> ZeroBytes]

\* a component under construction or in the list: the catalog entry it is bound
\* to, its previous value and its running max; `reads` remembers the values its
\* successful refreshes have read (history, not program state)
NoComp == [sensor |-> 0, previous |-> 0, max |-> 0, reads |-> {}]

IdleThread ==
    [phase |-> "idle", op |-> "none", pc |-> "", argSpeed |-> 0, argMode |-> "Auto",
     kop |-> NoKop, reply |-> NoReply, fan |-> NoFan, pre |-> NoFan,
     ownSmc |-> 0, platform |-> 0, keys |-> <<>>, count |-> 0, cur |-> NoComp,
     comps |-> <<>>, preComps |-> <<>>, idx |-> 0, ret |-> NoResult, log |-> <<>>,
     fans |-> <<>>, name |-> "", attempt |-> ""]

OffThread == [IdleThread EXCEPT !.phase = "off"]

\* the request record (SmcParam) of the exchange a thread is about to make
Request(thr) ==
    [sel |-> IF thr.kop.stage = "info" THEN "GetKeyInfo"
             ELSE IF thr.kop.kind = "read" THEN "ReadKey"
             ELSE IF thr.kop.kind = "index" THEN "GetKeyFromIndex" ELSE "WriteKey",
     key |-> thr.kop.code,
     data32 |-> IF thr.kop.kind = "index" THEN thr.kop.data ELSE 0,
     size |-> thr.kop.info.size,
     bytes |-> thr.kop.bytes]

\* the outcome with result byte 132 taken as KeyNotFound whatever the call status
CallDriverKeyNotFoundFirst(input, reply) ==
    IF reply.result = 132 THEN Err("KeyNotFound", input.key, 0, 0)
    ELSE IF reply.status = kIOReturnSuccess /\ reply.result = 0 THEN Ok(0)
    ELSE IF reply.status = kIOReturnNotPrivileged THEN Err("NotPrivileged", NoKey, 0, 0)
    ELSE Err("Unknown", NoKey, reply.status, reply.result)

\* SmcRepr::call_driver, lines 295-300: the outcome of one exchange
CallDriverResult(input, reply) ==
    IF reply.status = kIOReturnSuccess /\ reply.result = 0 THEN Ok(0)
    ELSE IF reply.status = kIOReturnSuccess /\ reply.result = 132
        THEN Err("KeyNotFound", input.key, 0, 0)
    ELSE IF reply.status = kIOReturnNotPrivileged THEN Err("NotPrivileged", NoKey, 0, 0)
    ELSE Err("Unknown", NoKey, reply.status, reply.result)

---------------------------------------------------------------------------
(* The driver (IOConnectCallStructMethod): what it answers and what a      *)
(* successful write does to the key store                                  *)

Statuses == {kIOReturnSuccess, kIOReturnNotPrivileged, kIOReturnError}
Results == {SmcResultSuccess, SmcResultKeyNotFound, SmcResultOther}
AllOutcomes == Statuses \X Results
FewOutcomes == {<<kIOReturnSuccess, SmcResultSuccess>>,
                <<kIOReturnSuccess, SmcResultKeyNotFound>>,
                <<kIOReturnNotPrivileged, SmcResultSuccess>>,
                <<kIOReturnError, SmcResultOther>>}

Succeeds(o) == o[1] = kIOReturnSuccess /\ o[2] = SmcResultSuccess

\* temperatures a sensor may report, in degrees
TempSamples == {-5, 25, 60}

\* speeds a fan may report, in RPM
SpeedSamples == {2000, 3500, 4000, 4500}

\* the bytes a read of the key may return
ReadChoices(key) ==
    IF hw[key].volatile
    THEN {F64ToSmc(d * Scale, DataType(hw[key].tag, hw[key].size)).val :
             d \in (IF StartsWith(key, "F") THEN SpeedSamples ELSE TempSamples)}
    ELSE {hw[key].bytes}

\* the driver can answer success only for a key, or an index, it has
Possible(req, o) ==
    Succeeds(o) =>
        IF req.sel = "GetKeyFromIndex" THEN req.data32 < Len(PresentKeys(hw))
        ELSE KeyPresent(req.key)

DriverReply(req, o, bytes) ==
    IF ~Succeeds(o) THEN [NoReply EXCEPT !.status = o[1], !.result = o[2]]
    ELSE CASE req.sel = "GetKeyInfo" ->
                [NoReply EXCEPT !.tag = hw[req.key].tag, !.size = hw[req.key].size]
           [] req.sel = "ReadKey" -> [NoReply EXCEPT !.bytes = bytes]
           [] req.sel = "GetKeyFromIndex" ->
                [NoReply EXCEPT !.key = PresentKeys(hw)[req.data32 + 1]]
           [] req.sel = "WriteKey" -> NoReply

HwAfter(req, o) ==
    IF Succeeds(o) /\ req.sel = "WriteKey"
    THEN [hw EXCEPT ![req.key].bytes = req.bytes]
    ELSE hw

---------------------------------------------------------------------------
(* Steps of an operation *)

\* read_key / write_key going straight to the read or the write
StartKopSkipsInfo(thr, pc, kind, ty, code, data) ==
    [thr EXCEPT !.phase = "lock", !.pc = pc,
                !.kop = [NoKop EXCEPT !.kind = kind, !.ty = ty, !.code = code,
                                      !.data = data, !.stage = "data",
                                      !.info = DataType(TYPE_FPE2, 2)]]

\* begin read_key / write_key / key_information on `code`: its first exchange is
\* the key-info exchange
StartKop(thr, pc, kind, ty, code, data) ==
    [thr EXCEPT !.phase = "lock", !.pc = pc,
                !.kop = [NoKop EXCEPT !.kind = kind, !.ty = ty, !.code = code,
                                      !.data = data, !.stage = "info"]]

\* begin key_information_at_index(index): one exchange
StartIndexKop(thr, pc, index) ==
    [thr EXCEPT !.phase = "lock", !.pc = pc,
                !.kop = [NoKop EXCEPT !.kind = "index", !.data = index, !.stage = "data"]]

\* the operation returns r to its caller
Finish(thr, r) == [thr EXCEPT !.phase = "idle", !.pc = "", !.kop = NoKop, !.ret = r]

\* a panic unwinds the thread
Panicked(thr) == [thr EXCEPT !.phase = "panicked", !.pc = "", !.kop = NoKop, !.ret = Panic]

SetBit(mask, i) == IF BitSet(mask, i) THEN mask ELSE mask + Pow2(i)
ClearBit(mask, i) == IF BitSet(mask, i) THEN mask - Pow2(i) ELSE mask

\* Fan::read_is_managed: bitmask & (1_u16 << id) == 0
ReadIsManaged(bitmask, id) == ~BitSet(bitmask, id)

\* write_managed writing a mask that holds the bit of this fan alone
WriteManagedNewOwnBitOnly(bitmask, id, what) == IF what THEN 0 ELSE Pow2(id)

\* Fan::write_managed: the new value of the bitmask
WriteManagedNew(bitmask, id, what) ==
    IF what THEN ClearBit(bitmask, id) ELSE SetBit(bitmask, id)

\* Fan::set_min_speed, the range guard
MinSpeedIsUnsafe(fan, speed) == speed <= 0 \/ speed > fan.max_speed

\* the guard with the low end inclusive (rpm = min_speed accepted)
CurrentSpeedGuardInclusiveLow(fan, speed) ==
    speed < fan.min_speed \/ speed > fan.max_speed

\* Fan::set_current_speed, the range guard
CurrentSpeedIsUnsafe(fan, speed) == speed <= fan.min_speed \/ speed > fan.max_speed

\* Fan::read_mode: the primary key, or else the FS! bitmask
ReadModeStep(thr, r) ==
    IF thr.pc = "mode" THEN
        IF IsOk(r) THEN Finish([thr EXCEPT !.fan.mode = r.val], Ok(0))
        ELSE StartKop(thr, "managed", "read", "u16", KEY_FS, 0)
    ELSE \* "managed": the `?` in the closure makes Fan::new fail, dropping the fan
        IF IsErr(r) THEN Finish([thr EXCEPT !.fan = NoFan], r)
        ELSE Finish([thr EXCEPT !.fan.mode =
                        FanModeFromBool(ReadIsManaged(r.val, thr.fan.id))], Ok(0))

\* Fan::new: min speed, max speed (with their defaults), then the mode
FanNewStep(thr, r) ==
    IF thr.pc = "min" THEN
        StartKop([thr EXCEPT !.fan.min_speed = IF IsOk(r) THEN r.val ELSE DefaultMinSpeed],
                 "max", "read", "f64", FanKey(thr.fan.id, "Mx"), 0)
    ELSE
        StartKop([thr EXCEPT !.fan.max_speed = IF IsOk(r) THEN r.val ELSE DefaultMaxSpeed],
                 "mode", "read", "FanMode", FanKey(thr.fan.id, "Md"), 0)

\* Fan::set_mode after its writes succeeded: cache the mode; set_current_speed goes
\* on to write the target key
ModeDone(thr) ==
    LET done == [thr EXCEPT !.fan.mode = thr.argMode]
    IN IF thr.op = "set_current_speed"
       THEN StartKop(done, "tg", "write", "f64", FanKey(thr.fan.id, "Tg"), thr.argSpeed)
       ELSE Finish(done, Ok(0))

\* write_managed writing the bitmask back whether or not the bit changes
WriteManagedAlwaysWrites(thr, r) ==
    IF IsErr(r) THEN Finish(thr, r)
    ELSE IF thr.pc = "fs_read" THEN
        StartKop(thr, "fs_write", "write", "u16", KEY_FS,
                 WriteManagedNew(r.val, thr.fan.id, thr.argMode = "Auto"))
    ELSE ModeDone(thr)

\* Fan::write_managed(what): read FS!, write it back only if the bit changes
WriteManagedStep(thr, r) ==
    IF IsErr(r) THEN Finish(thr, r)
    ELSE IF thr.pc = "fs_read" THEN
        LET new == WriteManagedNew(r.val, thr.fan.id, thr.argMode = "Auto")
        IN IF r.val = new THEN ModeDone(thr)
           ELSE StartKop(thr, "fs_write", "write", "u16", KEY_FS, new)
    ELSE ModeDone(thr)

\* set_mode carrying on whatever the write of F{id}Md returned
SetModeIgnoresFailure(thr, r) == ModeDone(thr)

\* Fan::set_mode: the write of F{id}Md, or else write_managed
SetModeStep(thr, r) ==
    IF IsOk(r) THEN ModeDone(thr)
    ELSE StartKop(thr, "fs_read", "read", "u16", KEY_FS, 0)

\* set_min_speed caching the speed before it knows the write succeeded
SetMinSpeedCachesFirst(thr, r) ==
    Finish([thr EXCEPT !.fan.min_speed = thr.argSpeed], r)

\* Fan::set_min_speed after the guard: cache the speed once the write succeeded
SetMinSpeedStep(thr, r) ==
    IF IsOk(r) THEN Finish([thr EXCEPT !.fan.min_speed = thr.argSpeed], Ok(0))
    ELSE Finish(thr, r)

\* the quotient rpm / (max_speed - min_speed) * 100.0 of two f64: a fraction
\* num / den, or what IEEE 754 gives for a zero divisor
Quotient(rpm, den) ==
    IF den # 0 THEN [kind |-> "finite", num |-> rpm * 100, den |-> den]
    ELSE IF rpm = 0 THEN [kind |-> "NaN", num |-> 0, den |-> 0]
    ELSE [kind |-> "inf", num |-> rpm, den |-> 0]

\* Fan::percent, once the current speed is read
PercentOf(fan, current) ==
    LET rpm == current - fan.min_speed
    IN Quotient(IF rpm < 0 THEN 0 ELSE rpm, fan.max_speed - fan.min_speed)

\* Fan::percent: current_speed()? and the quotient
PercentStep(thr, r) ==
    IF IsErr(r) THEN Finish(thr, r) ELSE Finish(thr, Ok(PercentOf(thr.fan, r.val)))

\* Fan::set_current_speed: the result of the target write is the result of the call
SetCurrentSpeedStep(thr, r) == Finish(thr, r)

\* the values of a sequence
Range(seq) == {seq[i] : i \in 1..Len(seq)}

\* AppleCpuComponent::refresh, lines 231-235: the value read becomes previous
\* and max becomes max.max(previous)
Updated(c, v) ==
    [c EXCEPT !.previous = v,
              !.max = IF c.max >= v THEN c.max ELSE v,
              !.reads = @ \cup {v}]

\* Interface::refresh from the i-th component on: the next thermal component is
\* refreshed; Smc::temperature fails at once for a key that does not start
\* with 'T'
RECURSIVE RefreshFrom(_, _)
RefreshFrom(thr, i) ==
    IF i > Len(thr.comps) THEN Finish([thr EXCEPT !.idx = 0], Ok(0))
    ELSE LET sensor == SENSORS[thr.comps[i].sensor]
         IN IF sensor.kind # "Temperature" THEN RefreshFrom(thr, i + 1)
            ELSE IF ~StartsWith(sensor.key, "T")
                THEN Finish([thr EXCEPT !.idx = i], Err("KeyNotFound", sensor.key, 0, 0))
            ELSE StartKop([thr EXCEPT !.idx = i], "t_info", "info", "", sensor.key, 0)

\* the catalog filter without the platform test
RECURSIVE DiscoverFromAnyPlatform(_, _)
DiscoverFromAnyPlatform(thr, c) ==
    IF c > Len(SENSORS)
    THEN Finish([thr EXCEPT !.idx = 0, !.cur = NoComp, !.keys = <<>>, !.count = 0], Ok(0))
    ELSE LET sensor == SENSORS[c]
         IN IF ~(sensor.key \in Range(thr.keys))
            THEN DiscoverFromAnyPlatform(thr, c + 1)
            ELSE IF sensor.component_type \notin {"Cpu", "Gpu"}
                THEN DiscoverFromAnyPlatform(thr, c + 1)
            ELSE IF ~StartsWith(sensor.key, "T")
                THEN DiscoverFromAnyPlatform(thr, c + 1)
            ELSE StartKop([thr EXCEPT !.idx = c, !.cur = [NoComp EXCEPT !.sensor = c]],
                          "t_info", "info", "", sensor.key, 0)

\* AppleComponents::new from the c-th catalog entry on: the filter, the
\* construction of the component and the start of its initial refresh
RECURSIVE DiscoverFrom(_, _)
DiscoverFrom(thr, c) ==
    IF c > Len(SENSORS)
    THEN Finish([thr EXCEPT !.idx = 0, !.cur = NoComp, !.keys = <<>>, !.count = 0], Ok(0))
    ELSE LET sensor == SENSORS[c]
         IN IF ~(sensor.key \in Range(thr.keys)
                   /\ PlatformContains(sensor.platforms, thr.platform))
            THEN DiscoverFrom(thr, c + 1)
            ELSE IF sensor.component_type \notin {"Cpu", "Gpu"}
                THEN DiscoverFrom(thr, c + 1)
            ELSE IF ~StartsWith(sensor.key, "T")
                THEN DiscoverFrom(thr, c + 1)
            ELSE StartKop([thr EXCEPT !.idx = c, !.cur = [NoComp EXCEPT !.sensor = c]],
                          "t_info", "info", "", sensor.key, 0)

\* a failed initial refresh making AppleComponents::new fail as a whole
ComponentRefreshedFatalAtDiscovery(thr, r) ==
    IF thr.op = "discover" THEN
        IF IsOk(r)
        THEN DiscoverFrom([thr EXCEPT !.comps = Append(@, Updated(thr.cur, r.val)),
                                      !.cur = NoComp], thr.idx + 1)
        ELSE Finish([thr EXCEPT !.ownSmc = 0, !.cur = NoComp, !.comps = <<>>,
                                !.keys = <<>>, !.count = 0], r)
    ELSE
        IF IsOk(r)
        THEN RefreshFrom([thr EXCEPT !.comps[thr.idx] = Updated(@, r.val)], thr.idx + 1)
        ELSE Finish(thr, r)

\* the refresh of a component going on to the next component after a failure
ComponentRefreshedKeepsGoing(thr, r) ==
    IF thr.op = "discover" THEN
        IF IsOk(r)
        THEN DiscoverFrom([thr EXCEPT !.comps = Append(@, Updated(thr.cur, r.val)),
                                      !.cur = NoComp], thr.idx + 1)
        ELSE DiscoverFrom([thr EXCEPT !.cur = NoComp], thr.idx + 1)
    ELSE
        IF IsOk(r)
        THEN RefreshFrom([thr EXCEPT !.comps[thr.idx] = Updated(@, r.val)], thr.idx + 1)
        ELSE RefreshFrom(thr, thr.idx + 1)

\* the refresh of a component returned r.  In AppleComponents::new the
\* component is kept if it is Ok and dropped otherwise; in Interface::refresh
\* an error ends the loop (`?`) with previous and max not assigned
ComponentRefreshed(thr, r) ==
    IF thr.op = "discover" THEN
        IF IsOk(r)
        THEN DiscoverFrom([thr EXCEPT !.comps = Append(@, Updated(thr.cur, r.val)),
                                      !.cur = NoComp], thr.idx + 1)
        ELSE DiscoverFrom([thr EXCEPT !.cur = NoComp], thr.idx + 1)
    ELSE
        IF IsOk(r)
        THEN RefreshFrom([thr EXCEPT !.comps[thr.idx] = Updated(@, r.val)], thr.idx + 1)
        ELSE Finish(thr, r)

\* Smc::temperature after its key_information, and after its read_key
TemperatureStep(thr, r) ==
    IF thr.pc = "t_info" THEN
        IF IsErr(r) THEN ComponentRefreshed(thr, r)
        ELSE IF r.val.id = TYPE_SP78 \/ r.val.id = TYPE_FLT
            THEN StartKop(thr, "t_read", "read", "f64", thr.kop.code, 0)
        ELSE ComponentRefreshed(thr, Err("KeyNotFound", thr.kop.code, 0, 0))
    ELSE ComponentRefreshed(thr, r)

\* AppleComponents::new fails: the Smc it opened is dropped
DiscoverFailed(thr, r) ==
    Finish([thr EXCEPT !.ownSmc = 0, !.keys = <<>>, !.count = 0], r)

\* Smc::keys going on to the next index after a failed index exchange
KeysStepSkipsFailedIndex(thr, r) ==
    IF IsErr(r) /\ thr.pc = "klen" THEN DiscoverFailed(thr, r)
    ELSE IF thr.pc = "klen" THEN
        IF r.val = 0 THEN DiscoverFrom([thr EXCEPT !.keys = <<>>], 1)
        ELSE StartIndexKop([thr EXCEPT !.count = r.val, !.keys = <<>>], "kidx", 0)
    ELSE LET keys == Append(thr.keys, IF IsErr(r) THEN NoKey ELSE r.val)
         IN IF Len(keys) < thr.count
            THEN StartIndexKop([thr EXCEPT !.keys = keys], "kidx", Len(keys))
            ELSE DiscoverFrom([thr EXCEPT !.keys = keys], 1)

\* Smc::keys: the key count, then the key at each index
KeysStep(thr, r) ==
    IF IsErr(r) THEN DiscoverFailed(thr, r)
    ELSE IF thr.pc = "klen" THEN
        IF r.val = 0 THEN DiscoverFrom([thr EXCEPT !.keys = <<>>], 1)
        ELSE StartIndexKop([thr EXCEPT !.count = r.val, !.keys = <<>>], "kidx", 0)
    ELSE LET keys == Append(thr.keys, r.val)
         IN IF Len(keys) < thr.count
            THEN StartIndexKop([thr EXCEPT !.keys = keys], "kidx", Len(keys))
            ELSE DiscoverFrom([thr EXCEPT !.keys = keys], 1)

\* the running operation continues with the result r of its key operation
\* the name Smc::fans gives fan i of len when generic_fan fails
FallbackName(i, len) ==
    IF i = 0 /\ len = 2 THEN "Left Fan"
    ELSE IF i = 1 /\ len = 2 THEN "Right Fan"
    ELSE "Unnamed Fan " \o ToString(i)

\* Fan::new(self.0.clone(), id, name) begins: the Arc is cloned into the Fan
StartFanNew(thr, id, name, attempt) ==
    StartKop([thr EXCEPT !.fan = [NoFan EXCEPT !.id = id], !.name = name,
                         !.attempt = attempt],
             "min", "read", "f64", FanKey(id, "Mn"), 0)

\* Smc::fans: the loop goes on with fan i, or returns the vector
NextFan(thr, i) ==
    IF i >= thr.count THEN Finish([thr EXCEPT !.idx = i], Ok(0))
    ELSE StartKop([thr EXCEPT !.idx = i], "fid", "read", "RawFan", FanKey(i, "ID"), 0)

\* res.push(fan)
PushFan(thr, entry) ==
    [thr EXCEPT !.fans = Append(@, entry), !.fan = NoFan, !.name = "", !.attempt = ""]

\* a Fan::new inside Smc::fans has returned
FanBuilt(thr) ==
    IF IsOk(thr.ret)
    THEN NextFan(PushFan(thr, [id |-> thr.fan.id, name |-> thr.name, fan |-> thr.fan,
                               valid |-> TRUE]),
                 thr.idx + 1)
    ELSE IF thr.attempt = "generic"
    THEN StartFanNew(thr, thr.idx, FallbackName(thr.idx, thr.count), "fallback")
    ELSE \* unwrap_unchecked() of an Err
         [thr EXCEPT !.phase = "undefined", !.pc = "", !.kop = NoKop]

\* Smc::fans: num_fans()?, then for each i generic_fan(i) (the read of F{i}ID
\* and Fan::new) or else Smc::fan(i, Some(fallback name))
FansStep(thr, r) ==
    IF thr.pc = "fnum" THEN
        IF IsErr(r) THEN Finish(thr, r)
        ELSE NextFan([thr EXCEPT !.count = r.val, !.fans = <<>>], 0)
    ELSE IF thr.pc = "fid" THEN
        IF IsErr(r)
        THEN StartFanNew(thr, thr.idx, FallbackName(thr.idx, thr.count), "fallback")
        ELSE StartFanNew(thr, thr.idx, r.val.name, "generic")
    ELSE LET n == IF thr.pc \in {"min", "max"} THEN FanNewStep(thr, r)
                  ELSE ReadModeStep(thr, r)
         IN IF n.phase = "idle" THEN FanBuilt(n) ELSE n

OpStep(thr, r) ==
    IF IsPanic(r) THEN Panicked(thr)
    ELSE IF thr.op = "fans" THEN FansStep(thr, r)
    ELSE CASE thr.pc \in {"min", "max"} -> FanNewStep(thr, r)
           [] thr.pc \in {"mode", "managed"} -> ReadModeStep(thr, r)
           [] thr.pc = "md" -> SetModeStep(thr, r)
           [] thr.pc \in {"fs_read", "fs_write"} -> WriteManagedStep(thr, r)
           [] thr.pc = "mn" -> SetMinSpeedStep(thr, r)
           [] thr.pc = "tg" -> SetCurrentSpeedStep(thr, r)
           [] thr.pc = "ac" -> PercentStep(thr, r)
           [] thr.pc \in {"klen", "kidx"} -> KeysStep(thr, r)
           [] thr.pc \in {"t_info", "t_read"} -> TemperatureStep(thr, r)

\* SmcRepr::read_key / write_key / key_information around one exchange: the
\* key-info exchange comes first, and its answer types the read or the write
Returned(thr, reply) ==
    LET req == Request(thr)
        r == CallDriverResult(req, reply)
        k == thr.kop
        logged == [thr EXCEPT !.reply = NoReply,
                              !.log = Append(@, [sel |-> req.sel, key |-> req.key,
                                                 data32 |-> req.data32, size |-> req.size,
                                                 bytes |-> req.bytes, out |-> reply.bytes,
                                                 outTag |-> reply.tag, outSize |-> reply.size,
                                                 outKey |-> reply.key,
                                                 status |-> reply.status,
                                                 result |-> reply.result, res |-> r])]
        dt == DataType(reply.tag, reply.size)
    IN IF IsErr(r) THEN OpStep(logged, r)
       ELSE IF k.stage = "info" THEN
           IF k.kind = "info" THEN OpStep(logged, Ok(dt))
           ELSE IF k.kind = "read"
               THEN [logged EXCEPT !.phase = "lock", !.kop.stage = "data", !.kop.info = dt]
           ELSE LET b == ToSmc(k.ty, k.data, dt)
                IN IF IsPanic(b) THEN OpStep(logged, Panic)
                   ELSE [logged EXCEPT !.phase = "lock", !.kop.stage = "data",
                                       !.kop.info = dt, !.kop.bytes = b.val]
       ELSE IF k.kind = "read" THEN OpStep(logged, FromSmc(k.ty, k.info, reply.bytes))
       ELSE IF k.kind = "index" THEN OpStep(logged, Ok(reply.key))
       ELSE OpStep(logged, Ok(0))

\* an operation begins: nothing is logged yet, and the objects are remembered
Begin(thr, op) ==
    [thr EXCEPT !.op = op, !.ret = NoResult, !.log = <<>>,
                !.pre = thr.fan, !.preComps = thr.comps]

\* the terminal program and the hwmon chip are not part of a run
NoTui == [proc |-> "none"]
NoHwmon == [now |-> -1]
NoCodec == [ty |-> ""]

---------------------------------------------------------------------------
(* Actions *)

\* the references to the SmcRepr that the values of a thread hold: its Fan, the
\* Smc of its AppleComponents, and an Smc clone in each component
Refs(thr) ==
    (IF thr.fan # NoFan THEN 1 ELSE 0) + thr.ownSmc + Len(thr.comps)
        + (IF thr.cur # NoComp THEN 1 ELSE 0)
        + Len(SelectSeq(thr.fans, LAMBDA f : f.valid))

\* references released by a step (values dropped as a constructor fails), less
\* the references it cloned
Dropped(old, new) == Refs(old) - Refs(new)

\* every released reference closing the handle
ReleaseClosesEveryTime(n) ==
    /\ strong' = strong - n
    /\ IF n > 0
       THEN session' = "Closed" /\ closes' = closes + 1
       ELSE UNCHANGED <<session, closes>>

\* Arc<SmcRepr>: n references are released; the last one runs Drop for SmcRepr,
\* which closes the handle
Release(n) ==
    /\ strong' = strong - n
    /\ IF n > 0 /\ strong - n = 0
       THEN session' = "Closed" /\ closes' = closes + 1
       ELSE UNCHANGED <<session, closes>>

\* Smc::fan(id, Some(name)): Fan::new(self.0.clone(), id, name)
FanNew(t, id) ==
    /\ th[t].phase = "idle" /\ th[t].fan = NoFan
    /\ smcs > 0 /\ opsLeft > 0
    /\ opsLeft' = opsLeft - 1
    /\ strong' = strong + 1
    /\ th' = [th EXCEPT ![t] =
                StartKop([Begin(th[t], "fan_new") EXCEPT
                             !.fan = [NoFan EXCEPT !.id = id]],
                         "min", "read", "f64", FanKey(id, "Mn"), 0)]
    /\ UNCHANGED <<session, closes, smcs, mutex, hw>>
    /\ UNCHANGED <<tui, hwmon, codec>>

\* Smc::new: SmcRepr::new finds the service and opens it, or fails with no
\* handle; the Arc starts with one strong reference
SmcNew(t) ==
    /\ th[t].phase = "idle" /\ session = "Disconnected"
    /\ \E r \in {Ok(0), Err("DriverNotFound", NoKey, 0, 0), Err("FailedToOpen", NoKey, 0, 0)} :
         /\ th' = [th EXCEPT ![t] = Finish(Begin(th[t], "smc_new"), r)]
         /\ IF IsOk(r)
            THEN session' = "Open" /\ strong' = 1 /\ smcs' = 1
            ELSE UNCHANGED <<session, strong, smcs>>
    /\ UNCHANGED <<closes, mutex, hw, opsLeft>>
    /\ UNCHANGED <<tui, hwmon, codec>>

\* impl Clone for Smc
SmcClone ==
    /\ smcs > 0 /\ smcs < MaxSmcs
    /\ smcs' = smcs + 1 /\ strong' = strong + 1
    /\ UNCHANGED <<session, closes, mutex, hw, th, opsLeft>>
    /\ UNCHANGED <<tui, hwmon, codec>>

\* an Smc value goes out of scope while no call borrows it
SmcDrop ==
    /\ smcs > 0
    /\ \A t \in Threads : th[t].phase \in {"idle", "off", "panicked"}
    /\ smcs' = smcs - 1
    /\ Release(1)
    /\ UNCHANGED <<mutex, hw, th, opsLeft>>
    /\ UNCHANGED <<tui, hwmon, codec>>

\* impl Clone for Fan: the clone is handed to another thread
FanClone(t, u) ==
    /\ th[t].phase = "idle" /\ th[t].fan # NoFan
    /\ th[u].phase = "off"
    /\ th' = [th EXCEPT ![u] = [IdleThread EXCEPT !.fan = th[t].fan]]
    /\ strong' = strong + 1
    /\ UNCHANGED <<session, closes, smcs, mutex, hw, opsLeft>>
    /\ UNCHANGED <<tui, hwmon, codec>>

\* a Fan goes out of scope, or is dropped by the unwinding of its thread
FanDrop(t) ==
    /\ th[t].phase \in {"idle", "panicked"} /\ th[t].fan # NoFan
    /\ th' = [th EXCEPT ![t].fan = NoFan]
    /\ Release(1)
    /\ UNCHANGED <<smcs, mutex, hw, opsLeft>>
    /\ UNCHANGED <<tui, hwmon, codec>>

\* AppleComponents::new on a host whose processor brand string is one of
\* names: Smc::new, Smc::keys, read_platform, then the catalog
AppleComponentsNewOn(t, names) ==
    /\ th[t].phase = "idle" /\ th[t].ownSmc = 0
    /\ session = "Disconnected" /\ opsLeft > 0
    /\ opsLeft' = opsLeft - 1
    /\ \E r \in {Ok(0), Err("DriverNotFound", NoKey, 0, 0), Err("FailedToOpen", NoKey, 0, 0)},
          cpu_name \in names :
         LET b == Begin(th[t], "discover")
         IN IF IsOk(r)
            THEN /\ session' = "Open" /\ strong' = 1
                 /\ th' = [th EXCEPT ![t] =
                        StartKop([b EXCEPT !.ownSmc = 1, !.platform = ReadPlatform(cpu_name)],
                                 "klen", "read", "u32", KEY_COUNT, 0)]
            ELSE /\ th' = [th EXCEPT ![t] = Finish(b, r)]
                 /\ UNCHANGED <<session, strong>>
    /\ UNCHANGED <<closes, smcs, mutex, hw>>
    /\ UNCHANGED <<tui, hwmon, codec>>

\* AppleComponents::new
AppleComponentsNew(t) == AppleComponentsNewOn(t, CpuNames)

\* Interface::refresh of the AppleComponents
InterfaceRefresh(t) ==
    /\ th[t].phase = "idle" /\ th[t].ownSmc = 1 /\ opsLeft > 0
    /\ opsLeft' = opsLeft - 1
    /\ th' = [th EXCEPT ![t] = RefreshFrom(Begin(th[t], "refresh"), 1)]
    /\ UNCHANGED <<session, strong, closes, smcs, mutex, hw>>
    /\ UNCHANGED <<tui, hwmon, codec>>

\* Fan::set_mode(mode)
SetMode(t, mode) ==
    /\ th[t].phase = "idle" /\ th[t].fan # NoFan /\ opsLeft > 0
    /\ opsLeft' = opsLeft - 1
    /\ th' = [th EXCEPT ![t] =
                StartKop([Begin(th[t], "set_mode") EXCEPT !.argMode = mode],
                         "md", "write", "FanMode", FanKey(th[t].fan.id, "Md"), mode)]
    /\ UNCHANGED <<session, strong, closes, smcs, mutex, hw>>
    /\ UNCHANGED <<tui, hwmon, codec>>

\* Fan::set_min_speed(speed)
SetMinSpeed(t, speed) ==
    /\ th[t].phase = "idle" /\ th[t].fan # NoFan /\ opsLeft > 0
    /\ opsLeft' = opsLeft - 1
    /\ LET b == [Begin(th[t], "set_min_speed") EXCEPT !.argSpeed = speed]
       IN th' = [th EXCEPT ![t] =
                IF MinSpeedIsUnsafe(th[t].fan, speed)
                THEN Finish(b, Err("UnsafeFanSpeed", NoKey, 0, 0))
                ELSE StartKop(b, "mn", "write", "f64", FanKey(th[t].fan.id, "Mn"), speed)]
    /\ UNCHANGED <<session, strong, closes, smcs, mutex, hw>>
    /\ UNCHANGED <<tui, hwmon, codec>>

\* Fan::set_current_speed(speed)
SetCurrentSpeed(t, speed) ==
    /\ th[t].phase = "idle" /\ th[t].fan # NoFan /\ opsLeft > 0
    /\ opsLeft' = opsLeft - 1
    /\ LET b == [Begin(th[t], "set_current_speed") EXCEPT
                    !.argSpeed = speed, !.argMode = "Forced"]
       IN th' = [th EXCEPT ![t] =
                IF CurrentSpeedIsUnsafe(th[t].fan, speed)
                THEN Finish(b, Err("UnsafeFanSpeed", NoKey, 0, 0))
                ELSE StartKop(b, "md", "write", "FanMode",
                              FanKey(th[t].fan.id, "Md"), "Forced")]
    /\ UNCHANGED <<session, strong, closes, smcs, mutex, hw>>
    /\ UNCHANGED <<tui, hwmon, codec>>

\* Fan::percent()
Percent(t) ==
    /\ th[t].phase = "idle" /\ th[t].fan # NoFan /\ opsLeft > 0
    /\ opsLeft' = opsLeft - 1
    /\ th' = [th EXCEPT ![t] =
                StartKop(Begin(th[t], "percent"), "ac", "read", "f64",
                         FanKey(th[t].fan.id, "Ac"), 0)]
    /\ UNCHANGED <<session, strong, closes, smcs, mutex, hw>>
    /\ UNCHANGED <<tui, hwmon, codec>>

\* Smc::fans()
Fans(t) ==
    /\ th[t].phase = "idle" /\ th[t].fan = NoFan /\ th[t].fans = <<>>
    /\ smcs > 0 /\ opsLeft > 0
    /\ opsLeft' = opsLeft - 1
    /\ th' = [th EXCEPT ![t] =
                StartKop(Begin(th[t], "fans"), "fnum", "read", "u8", "FNum", 0)]
    /\ UNCHANGED <<session, strong, closes, smcs, mutex, hw>>
    /\ UNCHANGED <<tui, hwmon, codec>>

\* unwrap_unchecked() of an Err is undefined: the build may stop the process,
\* or go on with the bytes of the error read as a Fan
UnwrapUnchecked(t) ==
    /\ th[t].phase = "undefined"
    /\ \E outcome \in {"abort", "garbage"} :
         th' = [th EXCEPT ![t] =
                  IF outcome = "abort" THEN Panicked(th[t])
                  ELSE NextFan(PushFan(th[t], [id |-> -1, name |-> "", fan |-> NoFan,
                                               valid |-> FALSE]),
                               th[t].idx + 1)]
    /\ UNCHANGED <<session, strong, closes, smcs, mutex, hw, opsLeft>>
    /\ UNCHANGED <<tui, hwmon, codec>>

\* call_driver as one step of a thread that runs alone: take the lock, make
\* the exchange, map its outcome, release the lock
Exchange(t, outcomes) ==
    /\ th[t].phase = "lock" /\ mutex = 0
    /\ \E o \in outcomes :
         /\ Possible(Request(th[t]), o)
         /\ \E bytes \in (IF Succeeds(o) /\ Request(th[t]).sel = "ReadKey"
                           THEN ReadChoices(Request(th[t]).key) ELSE {ZeroBytes}) :
              LET next == Returned(th[t], DriverReply(Request(th[t]), o, bytes))
              IN /\ th' = [th EXCEPT ![t] = next]
                 /\ hw' = HwAfter(Request(th[t]), o)
                 /\ Release(Dropped(th[t], next))
    /\ UNCHANGED <<smcs, mutex, opsLeft>>
    /\ UNCHANGED <<tui, hwmon, codec>>

\* call_driver entered with the lock taken whether or not it is free
AcquireUnguarded(t) ==
    /\ th[t].phase = "lock"
    /\ mutex' = t
    /\ th' = [th EXCEPT ![t].phase = "inflight"]
    /\ UNCHANGED <<session, strong, closes, smcs, hw, opsLeft>>
    /\ UNCHANGED <<tui, hwmon, codec>>

\* call_driver, line 282: self.0.lock() returns once the mutex is free
Acquire(t) ==
    /\ th[t].phase = "lock" /\ mutex = 0
    /\ mutex' = t
    /\ th' = [th EXCEPT ![t].phase = "inflight"]
    /\ UNCHANGED <<session, strong, closes, smcs, hw, opsLeft>>
    /\ UNCHANGED <<tui, hwmon, codec>>

\* call_driver, lines 284-293: the driver serves the request and fills the output
DriverAnswer(t, outcomes) ==
    /\ th[t].phase = "inflight"
    /\ \E o \in outcomes :
         /\ Possible(Request(th[t]), o)
         /\ \E bytes \in (IF Succeeds(o) /\ Request(th[t]).sel = "ReadKey"
                           THEN ReadChoices(Request(th[t]).key) ELSE {ZeroBytes}) :
              /\ th' = [th EXCEPT ![t].phase = "reply",
                                  ![t].reply = DriverReply(Request(th[t]), o, bytes)]
              /\ hw' = HwAfter(Request(th[t]), o)
    /\ UNCHANGED <<session, strong, closes, smcs, mutex, opsLeft>>
    /\ UNCHANGED <<tui, hwmon, codec>>

\* call_driver, lines 295-301: the outcome is mapped and the guard is dropped as
\* the function returns; the caller goes on with the result
Return(t) ==
    /\ th[t].phase = "reply"
    /\ LET next == Returned(th[t], th[t].reply)
       IN /\ th' = [th EXCEPT ![t] = next]
          /\ Release(Dropped(th[t], next))
    /\ mutex' = 0
    /\ UNCHANGED <<smcs, hw, opsLeft>>
    /\ UNCHANGED <<tui, hwmon, codec>>

---------------------------------------------------------------------------
(* The fan specification: one thread constructs a Fan and uses it *)

\* speeds passed to the setters, in RPM
Speeds == {0, 2500, 3000, 4000, 4500}
Modes == {"Auto", "Forced"}

FanHwKeys ==
    {KEY_FS} \cup {FanKey(id, sfx) : id \in FanIds, sfx \in {"Md", "Mn", "Mx", "Tg"}}

\* the key store of a machine with fans: FS! starts as the given bitmask
FanHw(fs, hasMd) ==
    [k \in FanHwKeys |->
        IF k = KEY_FS THEN HwEntry(TYPE_U16, 2, PutBytes(U16ToBe(fs)))
        ELSE LET sfx == SubSeq(k, 3, 4)
             IN CASE sfx = "Md" -> IF hasMd THEN HwEntry(TYPE_FLAG, 1, ZeroBytes) ELSE HwAbsent
                  [] sfx = "Mn" -> HwEntry(TYPE_FPE2, 2, F64ToSmc(3000 * Scale, DataType(TYPE_FPE2, 2)).val)
                  [] sfx = "Mx" -> HwEntry(TYPE_FLT, 4, F64ToSmc(4500 * Scale, DataType(TYPE_FLT, 4)).val)
                  [] sfx = "Tg" -> HwEntry(TYPE_FPE2, 2, ZeroBytes)]

Init ==
    /\ session = "Open" /\ strong = 1 /\ closes = 0 /\ smcs = 1
    /\ mutex = 0
    /\ \E fs \in {0, 2}, hasMd \in BOOLEAN : hw = FanHw(fs, hasMd)
    /\ th = [t \in Threads |-> IF t = 1 THEN IdleThread ELSE OffThread]
    /\ opsLeft = MaxOps + 1
    /\ tui = NoTui /\ hwmon = NoHwmon /\ codec = NoCodec

Next ==
    \/ \E id \in FanIds : FanNew(1, id)
    \/ \E m \in Modes : SetMode(1, m)
    \/ \E s \in Speeds : SetMinSpeed(1, s * Scale)
    \/ \E s \in Speeds : SetCurrentSpeed(1, s * Scale)
    \/ Exchange(1, FewOutcomes)

Spec == Init /\ [][Next]_vars

---------------------------------------------------------------------------
(* Properties of the Fan setters and of Fan::new *)

UnsafeFanSpeed == Err("UnsafeFanSpeed", NoKey, 0, 0)

LogIdx(t) == 1..Len(th[t].log)

\* the exchange e left fan id forced: a successful write of F{id}Md or of FS!
\* with the bit set, or a read of FS! that found the bit set already
ForcedBy(e, id) ==
    /\ IsOk(e.res)
    /\ \/ e.sel = "WriteKey" /\ e.key = FanKey(id, "Md") /\ e.bytes[1] = 1
       \/ e.sel = "WriteKey" /\ e.key = KEY_FS /\ BitSet(U16FromBe(e.bytes), id)
       \/ e.sel = "ReadKey" /\ e.key = KEY_FS /\ BitSet(U16FromBe(e.out), id)

\* the key store holds fan id as forced
HwForced(id) ==
    \/ KeyPresent(FanKey(id, "Md")) /\ hw[FanKey(id, "Md")].bytes[1] = 1
    \/ BitSet(U16FromBe(hw[KEY_FS].bytes), id)

\* C1: set_current_speed(rpm) is rejected with UnsafeFanSpeed exactly when
\* rpm <= min_speed or rpm > max_speed, and a rejected call makes no driver
\* exchange and leaves the fan as it was.
C1_CurrentSpeedGuard ==
    \A t \in Threads :
        th[t].op = "set_current_speed" =>
            LET unsafe == \/ th[t].argSpeed <= th[t].pre.min_speed
                          \/ th[t].argSpeed > th[t].pre.max_speed
            IN /\ unsafe => /\ th[t].phase = "idle"
                            /\ th[t].ret = UnsafeFanSpeed
                            /\ th[t].log = <<>>
                            /\ th[t].fan = th[t].pre
               /\ ~unsafe => th[t].ret # UnsafeFanSpeed

\* a call with rpm = min_speed has been rejected
C1_Witness ==
    /\ th[1].op = "set_current_speed"
    /\ th[1].argSpeed = th[1].pre.min_speed
    /\ th[1].ret = UnsafeFanSpeed

\* C5: in set_current_speed every exchange for the target key F{id}Tg comes
\* after an exchange that left the fan forced, and while the target is
\* written the cached mode and the key store both say Forced; so no target
\* exchange is made when forcing the mode fails.
C5_ForcedBeforeTarget ==
    \A t \in Threads :
        th[t].op = "set_current_speed" =>
            /\ \A i \in LogIdx(t) :
                 th[t].log[i].key = FanKey(th[t].pre.id, "Tg") =>
                     \E j \in 1..(i - 1) : ForcedBy(th[t].log[j], th[t].pre.id)
            /\ th[t].pc = "tg" => th[t].fan.mode = "Forced" /\ HwForced(th[t].fan.id)

\* the target key was written after the mode was forced through the bitmask
C5_Witness ==
    /\ th[1].op = "set_current_speed" /\ th[1].phase = "idle" /\ IsOk(th[1].ret)
    /\ \E i, j \in LogIdx(1) :
         /\ j < i
         /\ th[1].log[i].sel = "WriteKey" /\ th[1].log[i].key = FanKey(th[1].fan.id, "Tg")
         /\ th[1].log[j].sel = "WriteKey" /\ th[1].log[j].key = KEY_FS

\* C6: set_mode first attempts the write of F{id}Md; it turns to FS! only
\* after an exchange of that attempt failed; it makes an exchange for FS! after
\* its read of FS! only if bit id as read differs from the bit the mode
\* requires (set for Forced), and the value it writes has the required bit;
\* when the bit as read is the required one the call succeeds with no write.
C6_SetModeFallback ==
    \A t \in Threads :
        (th[t].op \in {"set_mode", "set_current_speed"} /\ th[t].log # <<>>) =>
            LET log == th[t].log
                id == th[t].pre.id
                md == FanKey(id, "Md")
                required == (th[t].argMode = "Forced")
                IsFsRead(i) == log[i].sel = "ReadKey" /\ log[i].key = KEY_FS /\ IsOk(log[i].res)
            IN /\ log[1].key = md /\ log[1].sel = "GetKeyInfo"
               /\ \A i \in LogIdx(t) :
                    log[i].key = KEY_FS =>
                        /\ \E j \in 1..(i - 1) : log[j].key = md /\ ~IsOk(log[j].res)
                        /\ \A j \in 1..(i - 1) :
                             ~(log[j].key = md /\ log[j].sel = "WriteKey" /\ IsOk(log[j].res))
               /\ \A i \in LogIdx(t) :
                    IsFsRead(i) =>
                        IF BitSet(U16FromBe(log[i].out), id) = required
                        THEN /\ \A j \in (i + 1)..Len(log) : log[j].key # KEY_FS
                             /\ th[t].op = "set_mode" =>
                                   /\ i = Len(log) /\ th[t].phase = "idle"
                                   /\ IsOk(th[t].ret) /\ th[t].fan.mode = th[t].argMode
                        ELSE \A j \in (i + 1)..Len(log) :
                                (log[j].sel = "WriteKey" /\ log[j].key = KEY_FS) =>
                                    BitSet(U16FromBe(log[j].bytes), id) = required
               /\ \A i \in LogIdx(t) :
                    (log[i].sel = "WriteKey" /\ log[i].key = KEY_FS) =>
                        \E j \in 1..(i - 1) : IsFsRead(j)

\* a set_mode fell back to FS! and found the bit already as required
C6_Witness ==
    /\ th[1].op = "set_mode" /\ th[1].phase = "idle" /\ IsOk(th[1].ret)
    /\ Len(th[1].log) > 0
    /\ LET e == th[1].log[Len(th[1].log)]
       IN /\ e.sel = "ReadKey" /\ e.key = KEY_FS
          /\ BitSet(U16FromBe(e.out), th[1].fan.id) = (th[1].argMode = "Forced")

\* C7: a Fan constructed when F{id}Md could not be read has mode Forced if and
\* only if bit id of the FS! bitmask it read is set.
C7_ModeFromBitmask ==
    \A t \in Threads :
        (th[t].op = "fan_new" /\ th[t].phase = "idle" /\ IsOk(th[t].ret)) =>
            \A i \in LogIdx(t) :
                (th[t].log[i].sel = "ReadKey" /\ th[t].log[i].key = KEY_FS) =>
                    ((th[t].fan.mode = "Forced")
                        <=> BitSet(U16FromBe(th[t].log[i].out), th[t].fan.id))

\* C8: set_min_speed(rpm) is rejected with UnsafeFanSpeed when rpm <= 0 or
\* rpm > max_speed, with no driver exchange and the fan unchanged; otherwise
\* its exchanges are for F{id}Mn only, and the cached min_speed is rpm after a
\* successful write of the encoded rpm and is unchanged in every other case.
C8_MinSpeed ==
    \A t \in Threads :
        th[t].op = "set_min_speed" =>
            LET log == th[t].log
                unsafe == th[t].argSpeed <= 0 \/ th[t].argSpeed > th[t].pre.max_speed
                written ==
                    /\ log # <<>>
                    /\ log[Len(log)].sel = "WriteKey" /\ IsOk(log[Len(log)].res)
            IN /\ unsafe => /\ th[t].phase = "idle" /\ th[t].ret = UnsafeFanSpeed
                            /\ log = <<>> /\ th[t].fan = th[t].pre
               /\ ~unsafe => th[t].ret # UnsafeFanSpeed
               /\ \A i \in LogIdx(t) : log[i].key = FanKey(th[t].pre.id, "Mn")
               /\ IF written
                  THEN /\ th[t].fan = [th[t].pre EXCEPT !.min_speed = th[t].argSpeed]
                       /\ IsOk(th[t].ret)
                  ELSE th[t].fan = th[t].pre /\ ~IsOk(th[t].ret)

\* a set_min_speed whose write failed has left the cached min_speed alone
C8_Witness ==
    /\ th[1].op = "set_min_speed" /\ th[1].phase = "idle"
    /\ IsErr(th[1].ret) /\ th[1].ret # UnsafeFanSpeed
    /\ th[1].argSpeed # th[1].pre.min_speed
    /\ th[1].fan.min_speed = th[1].pre.min_speed

---------------------------------------------------------------------------
(* The concurrent specification: two threads, each with its own Fan on the *)
(* shared session, call set_mode                                           *)

\* the Fan that Fan::new(id) constructs from the key store when no exchange fails
ConstructedFan(id, store) ==
    LET dt(k) == DataType(store[k].tag, store[k].size)
        val(k) == F64FromSmc(dt(k), store[k].bytes).val
        md == FanKey(id, "Md")
    IN [id |-> id,
        min_speed |-> val(FanKey(id, "Mn")),
        max_speed |-> val(FanKey(id, "Mx")),
        mode |-> IF store[md].present
                 THEN FanModeFromSmc(dt(md), store[md].bytes).val
                 ELSE FanModeFromBool(ReadIsManaged(U16FromBe(store[KEY_FS].bytes), id))]

\* the driver answers a key it has, and reports a key it does not have
ConcOutcomes == {<<kIOReturnSuccess, SmcResultSuccess>>,
                 <<kIOReturnSuccess, SmcResultKeyNotFound>>}

InitConc ==
    /\ session = "Open" /\ strong = 1 + Cardinality(Threads) /\ closes = 0 /\ smcs = 1
    /\ mutex = 0
    /\ \E hasMd \in BOOLEAN : hw = FanHw(0, hasMd)
    /\ th = [t \in Threads |-> [IdleThread EXCEPT !.fan = ConstructedFan(t - 1, hw)]]
    /\ opsLeft = MaxOps
    /\ tui = NoTui /\ hwmon = NoHwmon /\ codec = NoCodec

NextConc ==
    \/ \E t \in Threads, m \in Modes : SetMode(t, m)
    \/ \E t \in Threads : Acquire(t)
    \/ \E t \in Threads : DriverAnswer(t, ConcOutcomes)
    \/ \E t \in Threads : Return(t)

SpecConc == InitConc /\ [][NextConc]_vars

\* the thread is inside the locked part of call_driver
Holding(t) == th[t].phase \in {"inflight", "reply"}

\* C2: at most one thread is inside an exchange at any time and it is the one
\* holding the mutex; a thread completes exactly one exchange while it holds
\* the mutex, and the mutex is free again as soon as that exchange returned.
C2_OneExchangeInFlight ==
    /\ [](\A t, u \in Threads : (Holding(t) /\ Holding(u)) => t = u)
    /\ [](\A t \in Threads : Holding(t) <=> mutex = t)
    /\ [][\A t \in Threads :
            /\ Len(th'[t].log) = Len(th[t].log) + 1 => mutex = t /\ mutex' = 0
            /\ (mutex = t /\ mutex' # t) => Len(th'[t].log) = Len(th[t].log) + 1]_vars

\* thread 2 waits for the lock while the exchange of thread 1 is in flight
C2_Witness ==
    /\ mutex = 1 /\ th[1].phase = "inflight"
    /\ th[2].phase = "lock"

---------------------------------------------------------------------------
(* The session specification: the handle is opened, cloned into Smc values *)
(* and Fans, used, and the holders are dropped in any order                *)

InitSession ==
    /\ session = "Disconnected" /\ strong = 0 /\ closes = 0 /\ smcs = 0
    /\ mutex = 0
    /\ \E hasMd \in BOOLEAN : hw = FanHw(0, hasMd)
    /\ th = [t \in Threads |-> IF t = 1 THEN IdleThread ELSE OffThread]
    /\ opsLeft = MaxOps
    /\ tui = NoTui /\ hwmon = NoHwmon /\ codec = NoCodec

NextSession ==
    \/ SmcNew(1)
    \/ SmcClone
    \/ SmcDrop
    \/ FanNew(1, 0)
    \/ \E u \in Threads : FanClone(1, u)
    \/ \E t \in Threads : FanDrop(t)
    \/ \E t \in Threads : SetMode(t, "Forced")
    \/ \E t \in Threads : Exchange(t, ConcOutcomes)

SpecSession == InitSession /\ [][NextSession]_vars

\* the values that hold a reference to the SmcRepr
RECURSIVE SumRefs(_)
SumRefs(T) == IF T = {} THEN 0
              ELSE LET t == CHOOSE x \in T : TRUE IN Refs(th[t]) + SumRefs(T \ {t})

Holders == smcs + SumRefs(Threads)

\* C3: the handle of an opened session is closed at most once; it is closed
\* exactly when the session was opened and no holder is left, so never while
\* an Smc or a Fan still holds it; and a thread about to make a driver
\* exchange always finds the handle open.
C3_ClosedOnceAtLastDrop ==
    /\ closes <= 1
    /\ closes = 1 <=> session = "Closed"
    /\ strong = Holders
    /\ session = "Open" <=> Holders > 0
    /\ \A t \in Threads : th[t].phase = "lock" => session = "Open"

\* the handle was closed after a cloned Fan, outliving the Smc, had used it
C3_Witness ==
    /\ session = "Closed" /\ closes = 1
    /\ th[2].phase = "idle" /\ th[2].log # <<>> /\ IsOk(th[2].ret)

---------------------------------------------------------------------------
(* The driver specification: the setters of a constructed Fan against a    *)
(* driver that may answer every (call status, result byte) pair            *)

InitDriver ==
    /\ session = "Open" /\ strong = 2 /\ closes = 0 /\ smcs = 1
    /\ mutex = 0
    /\ \E hasMd \in BOOLEAN : hw = FanHw(0, hasMd)
    /\ th = [t \in Threads |->
                IF t = 1 THEN [IdleThread EXCEPT !.fan = ConstructedFan(0, hw)]
                ELSE OffThread]
    /\ opsLeft = MaxOps
    /\ tui = NoTui /\ hwmon = NoHwmon /\ codec = NoCodec

NextDriver ==
    \/ \E m \in Modes : SetMode(1, m)
    \/ SetMinSpeed(1, 2500 * Scale)
    \/ Exchange(1, AllOutcomes)

SpecDriver == InitDriver /\ [][NextDriver]_vars

\* C4: every exchange maps its (call status, result byte) pair as follows:
\* (success, 0) is Ok; (success, 132) is KeyNotFound with the key of the
\* request; not-privileged with any result byte is NotPrivileged; every other
\* pair is Unknown carrying that call status and that result byte.
C4_OutcomeMapping ==
    \A t \in Threads : \A i \in LogIdx(t) :
        LET e == th[t].log[i]
        IN IF e.status = kIOReturnSuccess /\ e.result = 0 THEN e.res = Ok(0)
           ELSE IF e.status = kIOReturnSuccess /\ e.result = 132
               THEN e.res = Err("KeyNotFound", e.key, 0, 0)
           ELSE IF e.status = kIOReturnNotPrivileged
               THEN e.res = Err("NotPrivileged", NoKey, 0, 0)
           ELSE e.res = Err("Unknown", NoKey, e.status, e.result)

\* an exchange whose call failed with result byte 132 was mapped to Unknown
C4_Witness ==
    \E i \in LogIdx(1) :
        /\ th[1].log[i].status = kIOReturnError /\ th[1].log[i].result = 132
        /\ th[1].log[i].res = Err("Unknown", NoKey, kIOReturnError, 132)

---------------------------------------------------------------------------
(* The component specification: AppleComponents::new discovers the         *)
(* components of a machine, and Interface::refresh refreshes them          *)

CompHwKeys == {"#KEY", "PCPC", "TB1T", "TC0P", "TG0P", "TL0P", "Tp05"}

\* the key store of a machine with sensors; Tp05 has the given type
CompHw(tp05) ==
    [k \in CompHwKeys |->
        CASE k = KEY_COUNT ->
                HwEntry(TYPE_U32, 4, PutBytes(U32ToBe(Cardinality(CompHwKeys))))
          [] k = "PCPC" -> HwEntry(TYPE_FLT, 4, ZeroBytes)
          [] k = "TB1T" -> HwSensor(TYPE_SP78, 2)
          [] k = "TC0P" -> HwSensor(TYPE_SP78, 2)
          [] k = "TG0P" -> HwSensor(TYPE_FLT, 4)
          [] k = "TL0P" -> HwSensor(TYPE_SP78, 2)
          [] k = "Tp05" -> IF tp05 = TYPE_U16 THEN HwEntry(TYPE_U16, 2, ZeroBytes)
                           ELSE HwSensor(tp05, 2)]

RefreshOutcomes == {<<kIOReturnSuccess, SmcResultSuccess>>,
                    <<kIOReturnNotPrivileged, SmcResultSuccess>>}

InitRefresh ==
    /\ session = "Disconnected" /\ strong = 0 /\ closes = 0 /\ smcs = 0
    /\ mutex = 0
    /\ \E tp05 \in {TYPE_SP78, TYPE_U16} : hw = CompHw(tp05)
    /\ th = [t \in Threads |-> IF t = 1 THEN IdleThread ELSE OffThread]
    /\ opsLeft = MaxOps + 1
    /\ tui = NoTui /\ hwmon = NoHwmon /\ codec = NoCodec

NextRefresh ==
    \/ AppleComponentsNew(1)
    \/ InterfaceRefresh(1)
    \/ Exchange(1, RefreshOutcomes)

SpecRefresh == InitRefresh /\ [][NextRefresh]_vars

\* the key a component is bound to
CompKey(c) == SENSORS[c.sensor].key

SetMax(S) == CHOOSE x \in S : \A y \in S : y <= x

\* C9: the running max of every component equals the largest value that its
\* successful refreshes have read since it was created (the initial refresh
\* included), and a refresh never leaves it lower than it was before the call.
C9_RunningMax ==
    \A t \in Threads : \A i \in 1..Len(th[t].comps) :
        LET c == th[t].comps[i]
        IN /\ c.reads # {}
           /\ c.max = SetMax(c.reads)
           /\ (th[t].op = "refresh" => c.max >= th[t].preComps[i].max)

\* C10: Interface::refresh makes its exchanges component by component in the
\* stored order; when it returns Ok every component holds the value just read;
\* when it returns an error, that error is the one of the component of its last
\* exchange, the components before that one hold the values just read, and
\* that component and every one after it have the previous value and the
\* running max they had before the call, the later ones without any exchange.
C10_RefreshStopsAtFirstError ==
    \A t \in Threads :
        th[t].op = "refresh" =>
            LET comps == th[t].comps
                pre == th[t].preComps
                log == th[t].log
                n == Len(comps)
                At(j) == CHOOSE i \in 1..n : CompKey(comps[i]) = log[j].key
                Touched(i) == \E j \in LogIdx(t) : log[j].key = CompKey(comps[i])
                Done(i) ==
                    \E j \in LogIdx(t) :
                        LET k == log[j].key
                        IN /\ k = CompKey(comps[i])
                           /\ log[j].sel = "ReadKey" /\ IsOk(log[j].res)
                           /\ comps[i].previous =
                                 F64FromSmc(DataType(hw[k].tag, hw[k].size), log[j].out).val
                           /\ comps[i].max = IF pre[i].max >= comps[i].previous
                                             THEN pre[i].max ELSE comps[i].previous
            IN /\ Len(pre) = n
               /\ \A j \in LogIdx(t) : \E i \in 1..n : CompKey(comps[i]) = log[j].key
               /\ \A j, k \in LogIdx(t) : j < k => At(j) <= At(k)
               /\ (th[t].phase = "idle" /\ IsOk(th[t].ret)) => \A i \in 1..n : Done(i)
               /\ (th[t].phase = "idle" /\ ~IsOk(th[t].ret)) =>
                     /\ log # <<>>
                     /\ LET f == At(Len(log))
                            last == log[Len(log)]
                        IN /\ \/ th[t].ret = last.res /\ IsErr(last.res)
                              \/ /\ th[t].ret = Err("KeyNotFound", CompKey(comps[f]), 0, 0)
                                 /\ last.sel = "GetKeyInfo" /\ IsOk(last.res)
                           /\ \A i \in 1..(f - 1) : Done(i)
                           /\ \A i \in f..n :
                                /\ comps[i].previous = pre[i].previous
                                /\ comps[i].max = pre[i].max
                           /\ \A i \in (f + 1)..n : ~Touched(i)
               /\ th[t].phase # "idle" =>
                     \A i \in 1..n : ~Touched(i) => comps[i] = pre[i]

\* a refresh of three components failed at the second: the first holds a new
\* value, the second and the third are as they were
C10_Witness ==
    /\ th[1].op = "refresh" /\ th[1].phase = "idle" /\ IsErr(th[1].ret)
    /\ Len(th[1].comps) = 3
    /\ th[1].log[Len(th[1].log)].key = CompKey(th[1].comps[2])
    /\ th[1].comps[1].previous # th[1].preComps[1].previous
    /\ th[1].comps[2] = th[1].preComps[2]
    /\ th[1].comps[3] = th[1].preComps[3]

---------------------------------------------------------------------------
(* Properties of discovery *)

\* the errors of Smc::new
OpenErrors == {Err("DriverNotFound", NoKey, 0, 0), Err("FailedToOpen", NoKey, 0, 0)}

\* the catalog entry passes the filter of the host and gets a component
Eligible(c, platform) ==
    /\ SENSORS[c].key \in Range(PresentKeys(hw))
    /\ PlatformContains(SENSORS[c].platforms, platform)
    /\ SENSORS[c].component_type \in {"Cpu", "Gpu"}

\* the sequence of catalog entries that the components are bound to
CompSensors(comps) == [i \in 1..Len(comps) |-> comps[i].sensor]

\* a discovery that returned Ok has, in catalog order, exactly the eligible
\* entries whose initial read succeeded, and it tried every eligible entry
EntriesIndependent(t) ==
    (th[t].op = "discover" /\ th[t].phase = "idle" /\ IsOk(th[t].ret)) =>
        LET log == th[t].log
            ReadOk(c) == \E j \in LogIdx(t) :
                            /\ log[j].sel = "ReadKey" /\ log[j].key = SENSORS[c].key
                            /\ IsOk(log[j].res)
            Tried(c) == \E j \in LogIdx(t) :
                            log[j].sel = "GetKeyInfo" /\ log[j].key = SENSORS[c].key
            Kept(c) == Eligible(c, th[t].platform) /\ ReadOk(c)
        IN /\ CompSensors(th[t].comps) = SelectSeq([c \in 1..Len(SENSORS) |-> c], Kept)
           /\ \A c \in 1..Len(SENSORS) : Eligible(c, th[t].platform) => Tried(c)

\* C11 as stated: discovery returns an error only when the session could not
\* be opened; a failure of one catalog entry only excludes that entry.
C11_FailsOnlyWhenNotOpened ==
    \A t \in Threads :
        /\ (th[t].op = "discover" /\ th[t].phase = "idle" /\ IsErr(th[t].ret)) =>
              th[t].ret \in OpenErrors
        /\ EntriesIndependent(t)

\* C11 amended: discovery returns an error only when the session could not be
\* opened or an exchange of the enumeration of the live keys (Smc::keys)
\* failed, and then it is that error; a failure of one catalog entry only
\* excludes that entry, and the other entries are still discovered.
C11_DiscoveryFailures ==
    \A t \in Threads :
        /\ (th[t].op = "discover" /\ th[t].phase = "idle" /\ IsErr(th[t].ret)) =>
              \/ th[t].ret \in OpenErrors /\ th[t].log = <<>>
              \/ /\ th[t].log # <<>>
                 /\ LET last == th[t].log[Len(th[t].log)]
                    IN /\ last.key = KEY_COUNT \/ last.sel = "GetKeyFromIndex"
                       /\ th[t].ret = last.res
                 /\ \A j \in LogIdx(t) :
                      th[t].log[j].key = KEY_COUNT \/ th[t].log[j].sel = "GetKeyFromIndex"
                 /\ th[t].comps = <<>>
        /\ EntriesIndependent(t)

\* a discovery returned Ok although the initial refresh of the first entry
\* failed: the entries after it are components
C11_Witness ==
    /\ th[1].op = "discover" /\ th[1].phase = "idle" /\ IsOk(th[1].ret)
    /\ \E j \in LogIdx(1) : th[1].log[j].key = "TC0P" /\ IsErr(th[1].log[j].res)
    /\ Len(th[1].comps) >= 2
    /\ SENSORS[th[1].comps[1].sensor].key = "TG0P"

\* the catalog entries that have a component
CompSet(t) == Range(CompSensors(th[t].comps))

\* the masks have a platform in common
Intersects(a, b) == BitAnd(a, b) # 0

\* the initial read of the entry was made and succeeded
ReadOk(t, c) ==
    \E j \in LogIdx(t) :
        /\ th[t].log[j].sel = "ReadKey" /\ th[t].log[j].key = SENSORS[c].key
        /\ IsOk(th[t].log[j].res)

\* every exchange of the call succeeded
AllOk(t) == \A j \in LogIdx(t) : IsOk(th[t].log[j].res)

Discovered(t) == th[t].op = "discover" /\ th[t].phase = "idle" /\ IsOk(th[t].ret)

\* C12 as stated: an entry is kept only if its key is live and its mask
\* intersects the host mask; an INTEL entry is excluded on an M1_PRO host and,
\* its key being live and the reads succeeding, included on an INTEL host.
C12_IntelEntryIncluded ==
    \A t \in Threads :
        Discovered(t) =>
            /\ \A c \in CompSet(t) :
                 /\ SENSORS[c].key \in Range(PresentKeys(hw))
                 /\ Intersects(SENSORS[c].platforms, th[t].platform)
            /\ \A c \in 1..Len(SENSORS) :
                 SENSORS[c].platforms = INTEL =>
                     /\ th[t].platform = M1_PRO => c \notin CompSet(t)
                     /\ (/\ th[t].platform = INTEL
                         /\ SENSORS[c].key \in Range(PresentKeys(hw))
                         /\ AllOk(t)) => c \in CompSet(t)

\* C12 amended: an entry is kept exactly if its key is live, its mask
\* intersects the host mask, its component type is Cpu or Gpu and its initial
\* read succeeded; so an INTEL entry is excluded on an M1_PRO host, and on an
\* INTEL host it is excluded too when it is not a Cpu or Gpu entry.
C12_CatalogFilter ==
    \A t \in Threads :
        Discovered(t) =>
            /\ \A c \in 1..Len(SENSORS) :
                 c \in CompSet(t) <=>
                     /\ SENSORS[c].key \in Range(PresentKeys(hw))
                     /\ Intersects(SENSORS[c].platforms, th[t].platform)
                     /\ SENSORS[c].component_type \in {"Cpu", "Gpu"}
                     /\ ReadOk(t, c)
            /\ \A c \in 1..Len(SENSORS) :
                 SENSORS[c].platforms = INTEL =>
                     /\ th[t].platform = M1_PRO => c \notin CompSet(t)
                     /\ (th[t].platform = INTEL
                           /\ SENSORS[c].component_type \notin {"Cpu", "Gpu"})
                            => c \notin CompSet(t)

\* on an INTEL host where every exchange succeeded, the live INTEL entry TB1T,
\* a System sensor, has no component while the Cpu entry TC0P has one
C12_Witness ==
    /\ Discovered(1) /\ th[1].platform = INTEL /\ AllOk(1)
    /\ KeyPresent("TB1T")
    /\ \E c \in 1..Len(SENSORS) :
         /\ SENSORS[c].key = "TB1T" /\ SENSORS[c].platforms = INTEL
         /\ c \notin CompSet(1)
    /\ \E c \in CompSet(1) : SENSORS[c].key = "TC0P"

---------------------------------------------------------------------------
(* The terminal program: src/src/main.rs.  Three threads share one channel *)
(* of unit messages: the poll loop (sender tx), the key reader (sender     *)
(* esc_tx) and the quit thread (receiver rx).                              *)

MaxTicks == 3
MaxKeys == 2

\* the state after Provider::default() and channel(): all three threads spawned
TuiStart ==
    [proc |-> "running", code |-> 0,
     poll |-> "render", key |-> "read", quit |-> "recv",
     chan |-> 0, ticks |-> 0, draws |-> 0, errors |-> 0, keys |-> 0, events |-> 0]

\* Sender::send: fails exactly when the receiver was dropped, which happens
\* when the quit thread unwinds
SendFails(u) == u.quit = "panicked"

\* what render returns: Ok, the provider's refresh error, or a terminal error
RenderResults == {"ok", "refresh", "draw"}

RenderFailedKeepsRunning(u) ==
    [u EXCEPT !.errors = @ + 1, !.poll = "sleep"]

\* the unwrap_or_else closure: eprintln!, then tx.send(()).unwrap()
RenderFailed(u) ==
    IF SendFails(u)
    THEN [u EXCEPT !.errors = @ + 1, !.poll = "panicked"]
    ELSE [u EXCEPT !.errors = @ + 1, !.chan = @ + 1, !.poll = "sleep"]

\* one pass of the poll loop up to the sleep
PollRender ==
    /\ tui.proc = "running" /\ tui.poll = "render" /\ tui.ticks < MaxTicks
    /\ \E r \in RenderResults :
         LET u == [tui EXCEPT !.ticks = @ + 1] IN
         tui' = IF r = "ok" THEN [u EXCEPT !.draws = @ + 1, !.poll = "sleep"]
                ELSE RenderFailed(u)
    /\ UNCHANGED <<smcVars, hwmon, codec>>

\* std::thread::sleep(options.interval) returns
PollSleep ==
    /\ tui.proc = "running" /\ tui.poll = "sleep"
    /\ tui' = [tui EXCEPT !.poll = "render"]
    /\ UNCHANGED <<smcVars, hwmon, codec>>

KeyEvents == {"Esc", "CtrlC", "c", "error"}

\* one pass of the key reader: read().unwrap(), then the quit keys send
KeyEvent ==
    /\ tui.proc = "running" /\ tui.key = "read" /\ tui.events < MaxKeys
    /\ \E k \in KeyEvents :
         LET u == [tui EXCEPT !.events = @ + 1] IN
         tui' = CASE k = "error" -> [u EXCEPT !.key = "panicked"]
                  [] k \in {"Esc", "CtrlC"} ->
                       IF SendFails(u) THEN [u EXCEPT !.keys = @ + 1, !.key = "panicked"]
                       ELSE [u EXCEPT !.keys = @ + 1, !.chan = @ + 1]
                  [] OTHER -> u
    /\ UNCHANGED <<smcVars, hwmon, codec>>

\* rx.recv() returns a message.  (It fails only when every sender is gone,
\* and a sender unwinds only after the receiver did.)
QuitRecv ==
    /\ tui.proc = "running" /\ tui.quit = "recv" /\ tui.chan > 0
    /\ tui' = [tui EXCEPT !.chan = @ - 1, !.quit = "restore"]
    /\ UNCHANGED <<smcVars, hwmon, codec>>

\* disable_raw_mode().unwrap(); execute!(..).unwrap(); std::process::exit(0)
QuitRestore ==
    /\ tui.proc = "running" /\ tui.quit = "restore"
    /\ \E restored \in BOOLEAN :
         tui' = IF restored THEN [tui EXCEPT !.proc = "exited", !.code = 0, !.quit = "done"]
                ELSE [tui EXCEPT !.quit = "panicked"]
    /\ UNCHANGED <<smcVars, hwmon, codec>>

InitPoll ==
    /\ session = "Disconnected" /\ strong = 0 /\ closes = 0 /\ smcs = 0
    /\ mutex = 0
    /\ hw = FanHw(0, TRUE)
    /\ th = [t \in Threads |-> OffThread]
    /\ opsLeft = 0
    /\ tui = TuiStart /\ hwmon = NoHwmon /\ codec = NoCodec

NextPoll == PollRender \/ PollSleep \/ KeyEvent \/ QuitRecv \/ QuitRestore

SpecPoll == InitPoll /\ [][NextPoll]_vars

\* C13 as stated: a failed tick is reported and the process keeps running;
\* the process does not terminate because of a failed tick, so it ends only
\* after a quit key was pressed.
C13_FailedTickKeepsRunning ==
    tui.proc = "exited" => tui.keys > 0

\* C13 as the code has it: a failed tick is reported and puts a quit message
\* on the channel; until the process ends, that message is pending or the quit
\* thread is already restoring the terminal, and the process ends with exit
\* status 0 only after a failed tick or a quit key.
C13_FailedTickQuits ==
    /\ (tui.proc = "running" /\ tui.errors > 0 /\ tui.quit # "panicked")
          => (tui.chan > 0 \/ tui.quit = "restore")
    /\ tui.proc = "exited" => (tui.code = 0 /\ tui.errors + tui.keys > 0)
    /\ tui.errors + tui.draws = tui.ticks

C13_Witness ==
    tui.proc = "exited" /\ tui.errors > 0 /\ tui.keys = 0 /\ tui.draws > 0

---------------------------------------------------------------------------
(* A Linux hwmon chip: src/tmt_core/src/linux.rs.  Time is counted in      *)
(* ticks of the monotonic clock; a file is its text, or absent/unreadable. *)

MaxTime == 4
MaxRefreshes == 3

DefaultHighest == 0
DefaultHigh == 85000
DefaultCrit == 100000

Absent == [exists |-> FALSE, text |-> ""]
Text(s) == [exists |-> TRUE, text |-> s]

EndsWith(s, suffix) ==
    /\ Len(s) >= Len(suffix)
    /\ SubSeq(s, Len(s) - Len(suffix) + 1, Len(s)) = suffix

Digits == <<"0", "1", "2", "3", "4", "5", "6", "7", "8", "9">>

DigitOf(c) == IF \E d \in 1..10 : Digits[d] = c
              THEN (CHOOSE d \in 1..10 : Digits[d] = c) - 1 ELSE -1

RECURSIVE ParseDigits(_, _)
\* the digits of s after the accumulated value acc; -1 when a character is
\* not a digit (the texts of the model stay far below the overflow of u32)
ParseDigits(s, acc) ==
    IF Len(s) = 0 THEN acc
    ELSE IF DigitOf(SubSeq(s, 1, 1)) < 0 THEN -1
    ELSE ParseDigits(SubSeq(s, 2, Len(s)), acc * 10 + DigitOf(SubSeq(s, 1, 1)))

\* str::parse::<u32>: an optional "+", then at least one digit; -1 is Err
ParseU32(s) ==
    LET t == IF Len(s) > 0 /\ SubSeq(s, 1, 1) = "+" THEN SubSeq(s, 2, Len(s)) ELSE s IN
    IF Len(t) = 0 THEN -1 ELSE ParseDigits(t, 0)

\* read!(field).and_then(|s| s.trim().parse::<u32>().ok()).unwrap_or(default)
ReadOr(file, default) ==
    IF file.exists /\ ParseU32(Trim(file.text)) >= 0 THEN ParseU32(Trim(file.text))
    ELSE default

\* one directory entry with the attribute files next to it
DirEntry(name, content, label, highest, max, crit) ==
    [kind |-> "file", name |-> name, content |-> content, label |-> label,
     highest |-> highest, max |-> max, crit |-> crit]

Plain(name, content) == DirEntry(name, content, Absent, Absent, Absent, Absent)

\* an entry that read_dir fails to yield, and one whose name is not UTF-8
EntryError == [kind |-> "ioerror"]
EntryNotUtf8 == [kind |-> "notutf8"]

\* the key under which a reading is stored (the label is not trimmed)
ReadingName(chip, label) ==
    CASE chip.exists /\ label.exists -> chip.text \o ": " \o label.text
      [] chip.exists /\ ~label.exists -> chip.text
      [] ~chip.exists /\ label.exists -> label.text
      [] OTHER -> "Unknown"

\* HashMap::insert
Insert(readings, name, r) ==
    [k \in (DOMAIN readings) \cup {name} |-> IF k = name THEN r ELSE readings[k]]

NoReadings == [k \in {} |-> 0]

RECURSIVE ScanFromSkipsUnparsable(_, _, _, _, _)
\* the for loop going on to the next entry when a temperature does not parse
ScanFromSkipsUnparsable(chip, entries, i, readings, n) ==
    IF i > Len(entries) THEN [readings |-> readings, err |-> "", files |-> n]
    ELSE LET en == entries[i] IN
      CASE en.kind = "ioerror" -> [readings |-> readings, err |-> "Io", files |-> n]
        [] en.kind = "notutf8" -> [readings |-> readings, err |-> "InvalidData", files |-> n]
        [] OTHER ->
            IF ~(StartsWith(en.name, "temp") /\ EndsWith(en.name, "_input"))
            THEN ScanFromSkipsUnparsable(chip, entries, i + 1, readings, n)
            ELSE IF ~en.content.exists THEN [readings |-> readings, err |-> "Io", files |-> n]
            ELSE IF ParseU32(Trim(en.content.text)) < 0
            THEN ScanFromSkipsUnparsable(chip, entries, i + 1, readings, n + 1)
            ELSE LET name == ReadingName(chip, en.label)
                     r == [name |-> name,
                           temperature |-> ParseU32(Trim(en.content.text)),
                           max |-> ReadOr(en.highest, DefaultHighest),
                           high |-> ReadOr(en.max, DefaultHigh),
                           crit |-> ReadOr(en.crit, DefaultCrit)]
                 IN ScanFromSkipsUnparsable(chip, entries, i + 1, Insert(readings, name, r), n + 1)

RECURSIVE ScanFrom(_, _, _, _, _)
\* the for loop of read_temperatures from entry i on: the readings it leaves,
\* the error it stops with ("" when it reaches the end) and the number n of
\* temperature files it has read
ScanFrom(chip, entries, i, readings, n) ==
    IF i > Len(entries) THEN [readings |-> readings, err |-> "", files |-> n]
    ELSE LET en == entries[i] IN
      CASE en.kind = "ioerror" -> [readings |-> readings, err |-> "Io", files |-> n]
        [] en.kind = "notutf8" -> [readings |-> readings, err |-> "InvalidData", files |-> n]
        [] OTHER ->
            IF ~(StartsWith(en.name, "temp") /\ EndsWith(en.name, "_input"))
            THEN ScanFrom(chip, entries, i + 1, readings, n)
            ELSE IF ~en.content.exists THEN [readings |-> readings, err |-> "Io", files |-> n]
            ELSE IF ParseU32(Trim(en.content.text)) < 0
            THEN [readings |-> readings, err |-> "InvalidData", files |-> n + 1]
            ELSE LET name == ReadingName(chip, en.label)
                     r == [name |-> name,
                           temperature |-> ParseU32(Trim(en.content.text)),
                           max |-> ReadOr(en.highest, DefaultHighest),
                           high |-> ReadOr(en.max, DefaultHigh),
                           crit |-> ReadOr(en.crit, DefaultCrit)]
                 IN ScanFrom(chip, entries, i + 1, Insert(readings, name, r), n + 1)

\* HwmonSensor::new at time now
HwmonSensorNew(name, update_interval, now) ==
    [name |-> name, update_interval |-> update_interval, last_update |-> now,
     wait |-> FALSE, readings |-> NoReadings]

ShouldReadIgnoresWait(sensor, now, power) ==
    IF now - sensor.last_update < sensor.update_interval THEN FALSE
    ELSE IF power.exists THEN Trim(power.text) \in {"D0", "unknown"}
    ELSE TRUE

\* should_read reading whatever the power state of the device
ShouldReadIgnoresPower(sensor, now, power) ==
    ~(sensor.wait /\ now - sensor.last_update < sensor.update_interval)

\* HwmonSensor::should_read; power is the power_state file of the device
\* (unwrap_or_default: an unreadable one reads as "")
ShouldRead(sensor, now, power) ==
    IF sensor.wait /\ now - sensor.last_update < sensor.update_interval THEN FALSE
    ELSE IF power.exists THEN Trim(power.text) \in {"D0", "unknown"}
    ELSE TRUE

\* what the directory of the chip may hold at a scan
Dirs ==
    { <<Plain("name", Text("coretemp\n")),
        DirEntry("temp1_input", Text("42000\n"), Text("Core 0\n"), Text("50000\n"), Absent, Absent)>>,
      <<DirEntry("temp1_input", Text("45000\n"), Text("Core 0\n"), Absent, Text("80000\n"), Text("n/a")),
        Plain("temp2_input", Text(" 38000 "))>>,
      <<DirEntry("temp1_input", Text("47000\n"), Text("Core 0\n"), Absent, Absent, Absent),
        Plain("temp2_input", Text("-1000\n"))>>,
      <<Plain("temp1_input", Absent)>>,
      <<EntryNotUtf8>>,
      <<EntryError>> }

\* what read_dir returns: the entries, or an error
ScanChoices == {[ok |-> TRUE, entries |-> d] : d \in Dirs} \cup {[ok |-> FALSE, entries |-> <<>>]}

\* HwmonSensor::read_temperatures at time now, with the files as they are
ReadTemperaturesResult(sensor, now, power, dir) ==
    IF ~ShouldRead(sensor, now, power)
    THEN [sensor |-> sensor, ret |-> "Ok", scanned |-> FALSE, files |-> 0]
    ELSE IF ~dir.ok
    THEN [sensor |-> sensor, ret |-> "Io", scanned |-> TRUE, files |-> 0]
    ELSE LET res == ScanFrom(sensor.name, dir.entries, 1, sensor.readings, 0) IN
         IF res.err # ""
         THEN [sensor |-> [sensor EXCEPT !.readings = res.readings],
               ret |-> res.err, scanned |-> TRUE, files |-> res.files]
         ELSE [sensor |-> [sensor EXCEPT !.readings = res.readings,
                                         !.last_update = now, !.wait = TRUE],
               ret |-> "Ok", scanned |-> TRUE, files |-> res.files]

\* the record of the latest refresh, for the properties: the sensor before
\* it, when it arrived, what it returned, whether it scanned (called
\* read_dir), and the times before it of the latest scan that read a
\* temperature file and of the latest scan that completed
NoRefresh ==
    [before |-> HwmonSensorNew(Absent, 0, 0), at |-> 0, ret |-> "", scanned |-> FALSE,
     prevScan |-> -1, prevDone |-> -1, power |-> Absent]

\* LinuxHardwareComponent::refresh of the Hwmon variant
ReadTemperatures ==
    /\ hwmon.now > -1 /\ hwmon.refreshes < MaxRefreshes
    /\ \E dir \in ScanChoices :
         LET res == ReadTemperaturesResult(hwmon.sensor, hwmon.now, hwmon.power, dir) IN
         hwmon' = [hwmon EXCEPT
                     !.sensor = res.sensor,
                     !.refreshes = @ + 1,
                     !.lastScan = IF res.files > 0 THEN hwmon.now ELSE @,
                     !.lastDone = IF res.scanned /\ res.ret = "Ok" THEN hwmon.now ELSE @,
                     !.last = [before |-> hwmon.sensor, at |-> hwmon.now, ret |-> res.ret,
                               scanned |-> res.scanned,
                               prevScan |-> hwmon.lastScan, prevDone |-> hwmon.lastDone,
                               power |-> hwmon.power]]
    /\ UNCHANGED <<smcVars, tui, codec>>

\* the clock advances
Tick ==
    /\ hwmon.now > -1 /\ hwmon.now < MaxTime
    /\ hwmon' = [hwmon EXCEPT !.now = @ + 1]
    /\ UNCHANGED <<smcVars, tui, codec>>

Intervals == {0, 2}
PowerStates == {Absent, Text("D0\n"), Text("unknown"), Text("D3hot\n")}
ChipNames == {Absent, Text("coretemp\n")}

\* get_sensors_from_hwmon has just created the sensor
InitHwmon ==
    /\ session = "Disconnected" /\ strong = 0 /\ closes = 0 /\ smcs = 0
    /\ mutex = 0
    /\ hw = FanHw(0, TRUE)
    /\ th = [t \in Threads |-> OffThread]
    /\ opsLeft = 0
    /\ tui = NoTui /\ codec = NoCodec
    /\ \E name \in ChipNames, interval \in Intervals, power \in PowerStates :
         hwmon = [now |-> 0, sensor |-> HwmonSensorNew(name, interval, 0), power |-> power,
                  refreshes |-> 0, lastScan |-> -1, lastDone |-> -1, last |-> NoRefresh]

NextHwmon == ReadTemperatures \/ Tick

SpecHwmon == InitHwmon /\ [][NextHwmon]_vars

\* the case of C14: no power_state file, and a refresh has been made
RateLimited == ~hwmon.power.exists /\ hwmon.refreshes > 0

Unchanged(l) ==
    /\ ~l.scanned /\ l.ret = "Ok"
    /\ hwmon.sensor.readings = l.before.readings
    /\ hwmon.sensor.last_update = l.before.last_update

\* C14 as stated: without a power_state file, a refresh less than
\* update_interval after the last actual scan does not scan, returns Ok and
\* leaves the readings and the last-poll time unchanged; the first refresh
\* after creation scans, and a refresh at or after the interval scans.
\* (An actual scan is one that read at least one temperature file.)
C14_RateLimitSinceLastScan ==
    RateLimited =>
      LET l == hwmon.last IN
      /\ (l.prevScan >= 0 /\ l.at - l.prevScan < l.before.update_interval) => Unchanged(l)
      /\ hwmon.refreshes = 1 => l.scanned
      /\ (l.prevScan >= 0 /\ l.at - l.prevScan >= l.before.update_interval) => l.scanned

\* C14 with the interval counted from the last scan that completed: such a
\* refresh less than update_interval later does not scan, returns Ok and
\* leaves the readings and the last-poll time unchanged; every refresh before
\* a scan has completed (the first one after creation among them) scans, and
\* so does a refresh at or after the interval.
C14_RateLimitSinceLastCompletedScan ==
    RateLimited =>
      LET l == hwmon.last IN
      /\ (l.prevDone >= 0 /\ l.at - l.prevDone < l.before.update_interval) => Unchanged(l)
      /\ l.prevDone < 0 => l.scanned
      /\ (l.prevDone >= 0 /\ l.at - l.prevDone >= l.before.update_interval) => l.scanned
      /\ l.before.last_update = (IF l.prevDone >= 0 THEN l.prevDone ELSE 0)

C14_Witness ==
    /\ RateLimited /\ hwmon.refreshes = 3
    /\ hwmon.last.prevDone >= 0 /\ hwmon.last.prevScan > hwmon.last.prevDone
    /\ hwmon.last.at - hwmon.last.prevDone >= hwmon.sensor.update_interval
    /\ hwmon.last.scanned /\ hwmon.sensor.update_interval > 0
    /\ DOMAIN hwmon.sensor.readings # {}

---------------------------------------------------------------------------
(* The byte codec on its own: src/tmt_core/src/smc/conv.rs.  A conversion  *)
(* takes a logical type, a type descriptor, a value to encode and a buffer *)
(* to decode.                                                              *)

LogicalTypes == {"bool", "i8", "u8", "i16", "u16", "i32", "u32", "f64", "RawFan"}

\* the descriptors the driver gives out: a tag with its size
Descriptors ==
    { DataType(TYPE_FLAG, 1), DataType(TYPE_I8, 1), DataType(TYPE_U8, 1),
      DataType(TYPE_I16, 2), DataType(TYPE_U16, 2), DataType(TYPE_I32, 4),
      DataType(TYPE_U32, 4), DataType(TYPE_FPE2, 2), DataType(TYPE_SP78, 2),
      DataType(TYPE_FLT, 4), DataType(TYPE_FAN, 8) }

\* the values of a logical type that are encoded
Values(ty) ==
    CASE ty = "bool" -> BOOLEAN
      [] ty = "i8" -> {-128, -42, 0, 127}
      [] ty = "u8" -> {0, 42, 255}
      [] ty = "i16" -> {-32768, -300, 0, 32767}
      [] ty = "u16" -> {0, 42, 2500, 65535}
      [] ty = "i32" -> {-70000, -1, 0, 70000}
      [] ty = "u32" -> {0, 42, 70000}
      [] ty = "f64" -> {-(128 * Scale), -(5 * Scale) - 1, -1, 0, 1, 255, 257, 25 * Scale + 3,
                        127 * Scale + 1023, 200 * Scale, 2500 * Scale + 511}
      [] ty = "RawFan" -> {[name |-> "Fan"]}

\* more f64 values for fpe2, beyond its range
BigValues == {16383 * Scale + 1000, 16384 * Scale}

\* the buffers that are decoded
Buffers ==
    { PutBytes(<<42>>), PutBytes(<<214>>), PutBytes(<<0, 42>>), PutBytes(<<9, 196>>),
      PutBytes(<<255, 214>>), PutBytes(<<0, 1, 17, 112>>), PutBytes(<<0, 0, 200, 65>>),
      PutBytes(<<0, 0, 0, 0, 32, 76, 97, 0>>), PutBytes(<<0, 0, 0, 0, 70, 97, 110, 32>>) }

\* a u32 of the model stays below 2^31, and a float is zero or has an
\* exponent between -20 and 20
Representable(ty, dt, bytes) ==
    /\ (ty = "u32" /\ dt.id = TYPE_U32) => bytes[1] < 128
    /\ (ty = "f64" /\ dt.id = TYPE_FLT) =>
          LET e == (bytes[4] % 128) * 2 + (bytes[3] \div 128) IN e = 0 \/ e \in 107..147

InitCodec ==
    /\ session = "Disconnected" /\ strong = 0 /\ closes = 0 /\ smcs = 0
    /\ mutex = 0
    /\ hw = FanHw(0, TRUE)
    /\ th = [t \in Threads |-> OffThread]
    /\ opsLeft = 0
    /\ tui = NoTui /\ hwmon = NoHwmon
    /\ \E ty \in LogicalTypes, dt \in Descriptors, bytes \in Buffers :
         \E x \in Values(ty) \cup (IF ty = "f64" /\ dt.id = TYPE_FPE2 THEN BigValues ELSE {}) :
           /\ Representable(ty, dt, bytes)
           /\ codec = [ty |-> ty, dt |-> dt, x |-> x, bytes |-> bytes,
                       enc |-> NoResult, back |-> NoResult, dec |-> NoResult]

\* x.to_smc(dt)
Encode ==
    /\ codec.ty # "" /\ codec.enc = NoResult
    /\ codec' = [codec EXCEPT !.enc = ToSmc(codec.ty, codec.x, codec.dt)]
    /\ UNCHANGED <<smcVars, tui, hwmon>>

\* T::from_smc(dt, x.to_smc(dt))
DecodeBack ==
    /\ codec.ty # "" /\ IsOk(codec.enc) /\ codec.back = NoResult
    /\ codec' = [codec EXCEPT !.back = FromSmc(codec.ty, codec.dt, codec.enc.val)]
    /\ UNCHANGED <<smcVars, tui, hwmon>>

\* T::from_smc(dt, bytes)
Decode ==
    /\ codec.ty # "" /\ codec.dec = NoResult
    /\ codec' = [codec EXCEPT !.dec = FromSmc(codec.ty, codec.dt, codec.bytes)]
    /\ UNCHANGED <<smcVars, tui, hwmon>>

NextCodec == Encode \/ DecodeBack \/ Decode

SpecCodec == InitCodec /\ [][NextCodec]_vars

\* C15: no codec operation aborts the program: an encode or a decode with
\* a tag the logical type does not support, a negative value encoded as fpe2
\* and the encoding of a fan descriptor return an error value, never a panic.
C15_NoCodecPanic ==
    ~IsPanic(codec.enc) /\ ~IsPanic(codec.back) /\ ~IsPanic(codec.dec)

IntegerTypes == {"i8", "u8", "i16", "u16", "i32", "u32"}

\* the tag of an integer type, and the narrower tags of its signedness
OwnTag(ty) ==
    CASE ty = "i8" -> TYPE_I8 [] ty = "u8" -> TYPE_U8 [] ty = "i16" -> TYPE_I16
      [] ty = "u16" -> TYPE_U16 [] ty = "i32" -> TYPE_I32 [] ty = "u32" -> TYPE_U32

NarrowerTags(ty) ==
    CASE ty = "u16" -> {TYPE_U8} [] ty = "u32" -> {TYPE_U8, TYPE_U16}
      [] ty = "i16" -> {TYPE_I8} [] ty = "i32" -> {TYPE_I8, TYPE_I16}
      [] OTHER -> {}

\* the number a buffer holds under an integer tag
IntegerOf(tag, bytes) ==
    CASE tag = TYPE_U8 -> bytes[1]
      [] tag = TYPE_I8 -> I8OfBits(bytes[1])
      [] tag = TYPE_U16 -> U16FromBe(bytes)
      [] tag = TYPE_I16 -> I16OfBits(U16FromBe(bytes))
      [] tag = TYPE_U32 -> U32FromBe(bytes)
      [] tag = TYPE_I32 -> I32FromBe(bytes)

\* C16: decoding an integer succeeds, with the number the buffer holds, when
\* the tag is the type's own or a narrower integer tag of the same signedness
\* (u16 from ui8, u32 from ui8 or ui16, i16 from si8, i32 from si8 or si16);
\* with every other tag the decode fails (gives no value).
C16_IntegerWidening ==
    (codec.ty \in IntegerTypes /\ codec.dec # NoResult) =>
        IF codec.dt.id \in {OwnTag(codec.ty)} \cup NarrowerTags(codec.ty)
        THEN IsOk(codec.dec) /\ codec.dec.val = IntegerOf(codec.dt.id, codec.bytes)
        ELSE ~IsOk(codec.dec)

\* the loss a tag allows, in units of 1/Scale
Precision(tag) ==
    CASE tag = TYPE_FPE2 -> Scale \div 4
      [] tag = TYPE_SP78 -> Scale \div 256
      [] OTHER -> 0

RoundTrip(x, back, tag) ==
    /\ IsOk(back)
    /\ IF tag \in {TYPE_FPE2, TYPE_SP78}
       THEN Abs(x - back.val) <= Precision(tag)
       ELSE back.val = x

\* C17 as stated: for every tag and every value x that encode accepts,
\* decoding the encoded bytes gives x back: exactly for flag and the integer
\* tags, within 1/256 for sp78 and within 1/4 for fpe2; fpe2 rejects x < 0.
C17_RoundTrip ==
    /\ (codec.ty # "" /\ codec.back # NoResult) => RoundTrip(codec.x, codec.back, codec.dt.id)
    /\ (codec.ty = "f64" /\ codec.dt.id = TYPE_FPE2 /\ codec.x < 0 /\ codec.enc # NoResult)
          => ~IsOk(codec.enc)

\* the values a fixed-point tag can hold
InRange(x, tag) ==
    CASE tag = TYPE_FPE2 -> 0 <= x /\ x < 16384 * Scale
      [] tag = TYPE_SP78 -> -(128 * Scale) <= x /\ x < 128 * Scale
      [] OTHER -> TRUE

\* C17 for the values in the range of the tag: the round trip is exact for
\* flag and the integer tags, loses less than 1/256 for sp78 and less than
\* 1/4 for fpe2, towards zero (encode truncates); fpe2 rejects x < 0.
C17_RoundTripInRange ==
    /\ (codec.ty # "" /\ codec.back # NoResult /\ InRange(codec.x, codec.dt.id)) =>
          /\ RoundTrip(codec.x, codec.back, codec.dt.id)
          /\ codec.ty = "f64" =>
               /\ Abs(codec.back.val) <= Abs(codec.x)
               /\ codec.dt.id \in {TYPE_FPE2, TYPE_SP78} =>
                    Abs(codec.x - codec.back.val) < Precision(codec.dt.id)
    /\ (codec.ty = "f64" /\ codec.dt.id = TYPE_FPE2 /\ codec.x < 0 /\ codec.enc # NoResult)
          => ~IsOk(codec.enc)

C17_Witness ==
    /\ codec.ty = "f64" /\ codec.dt.id = TYPE_SP78 /\ IsOk(codec.back)
    /\ InRange(codec.x, codec.dt.id) /\ codec.x < 0 /\ codec.back.val > codec.x

---------------------------------------------------------------------------
(* Fan::percent: a fan is constructed, its minimum speed is set, and the   *)
(* percentage is asked for.                                                *)

\* the key store of a machine with fans that also report their speed
PercentHw(mnTag) ==
    [k \in FanHwKeys \cup {FanKey(id, "Ac") : id \in FanIds} |->
        IF k = FanKey(0, "Mn")
        THEN HwEntry(mnTag, IF mnTag = TYPE_FLT THEN 4 ELSE 2,
                     F64ToSmc(3000 * Scale, DataType(mnTag, 2)).val)
        ELSE IF k \in FanHwKeys THEN FanHw(0, TRUE)[k] ELSE HwSensor(TYPE_FPE2, 2)]

PercentOutcomes == {<<kIOReturnSuccess, SmcResultSuccess>>,
                    <<kIOReturnSuccess, SmcResultKeyNotFound>>}

InitPercent ==
    /\ session = "Open" /\ strong = 1 /\ closes = 0 /\ smcs = 1
    /\ mutex = 0
    /\ \E mnTag \in {TYPE_FPE2, TYPE_FLT} : hw = PercentHw(mnTag)
    /\ th = [t \in Threads |-> IF t = 1 THEN IdleThread ELSE OffThread]
    /\ opsLeft = MaxOps + 1
    /\ tui = NoTui /\ hwmon = NoHwmon /\ codec = NoCodec

NextPercent ==
    \/ FanNew(1, 0)
    \/ \E s \in Speeds : SetMinSpeed(1, s * Scale)
    \/ Percent(1)
    \/ Exchange(1, PercentOutcomes)

SpecPercent == InitPercent /\ [][NextPercent]_vars

\* the current speed that the last percent() read
CurrentRead(thr) ==
    LET x == thr.log[Len(thr.log)]
    IN F64FromSmc(DataType(hw[x.key].tag, hw[x.key].size), x.out).val

IsPercent(q, n) == q.kind = "finite" /\ q.num = n * q.den

\* C18: percent() returns max(0, current - min_speed) / (max_speed -
\* min_speed) * 100: it is 0 whenever the current speed is below min_speed and
\* 100 when the current speed equals max_speed, for every fan reachable by
\* construction and set_min_speed calls.
C18_Percent ==
    \A t \in Threads :
        (th[t].op = "percent" /\ th[t].phase = "idle" /\ IsOk(th[t].ret)) =>
            LET fan == th[t].fan
                current == CurrentRead(th[t])
            IN /\ current < fan.min_speed => IsPercent(th[t].ret.val, 0)
               /\ current = fan.max_speed => IsPercent(th[t].ret.val, 100)

---------------------------------------------------------------------------
(* Smc::fans: the fans of the machine are enumerated and constructed *)

\* the numbers of fans the machine may report
FanCounts == 1..(MaxFanId + 1)

\* the descriptor of a fan: four reserved bytes, then the name
FanDescriptor(id) ==
    IF id = 0 THEN PutBytes(<<0, 0, 0, 0, 70, 97, 110, 32>>)
    ELSE PutBytes(<<0, 0, 0, 0, 32, 76, 97, 0>>)

\* the key store of a machine with n fans
FansHw(n) ==
    [k \in FanHwKeys \cup {"FNum"} \cup {FanKey(id, "ID") : id \in FanIds} |->
        IF k = "FNum" THEN HwEntry(TYPE_U8, 1, PutBytes(<<n>>))
        ELSE IF k \in FanHwKeys THEN FanHw(0, TRUE)[k]
        ELSE HwEntry(TYPE_FAN, 8, FanDescriptor(IF k = FanKey(0, "ID") THEN 0 ELSE 1))]

\* the exchanges that may fail: the key-info exchange of these keys
FailingKeys == {"FNum", KEY_FS} \cup {FanKey(id, sfx) : id \in FanIds, sfx \in {"ID", "Md"}}

MayFail(req) == req.sel = "GetKeyInfo" /\ req.key \in FailingKeys

InitFans ==
    /\ session = "Open" /\ strong = 1 /\ closes = 0 /\ smcs = 1
    /\ mutex = 0
    /\ \E n \in FanCounts : hw = FansHw(n)
    /\ th = [t \in Threads |-> IF t = 1 THEN IdleThread ELSE OffThread]
    /\ opsLeft = 1
    /\ tui = NoTui /\ hwmon = NoHwmon /\ codec = NoCodec

NextFans ==
    \/ Fans(1)
    \/ Exchange(1, {<<kIOReturnSuccess, SmcResultSuccess>>})
    \/ (MayFail(Request(th[1])) /\ Exchange(1, {<<kIOReturnSuccess, SmcResultKeyNotFound>>}))
    \/ UnwrapUnchecked(1)

SpecFans == InitFans /\ [][NextFans]_vars

\* the identification read of fan i succeeded in the call, and what it read
IdReads(thr, i) ==
    {j \in 1..Len(thr.log) :
        thr.log[j].sel = "ReadKey" /\ thr.log[j].key = FanKey(i, "ID") /\ IsOk(thr.log[j].res)}

DecodedName(thr, i) ==
    LET j == CHOOSE j \in IdReads(thr, i) : TRUE
    IN RawFanFromSmc(DataType(hw[FanKey(i, "ID")].tag, hw[FanKey(i, "ID")].size),
                     thr.log[j].out).val.name

\* C19: fans() returns one Fan for each id 0..FNum-1 in ascending id order; a
\* fan whose identification read fails is named "Left Fan" / "Right Fan" in
\* a system of exactly 2 fans and "Unnamed Fan {id}" otherwise, and a fan
\* whose identification read succeeds carries the name of its descriptor.
C19_FansNamed ==
    \A t \in Threads :
        (th[t].op = "fans" /\ th[t].phase = "idle" /\ IsOk(th[t].ret)) =>
            /\ Len(th[t].fans) = th[t].count
            /\ \A k \in 1..Len(th[t].fans) :
                 LET f == th[t].fans[k] IN
                 /\ f.id = k - 1
                 /\ f.name = IF IdReads(th[t], k - 1) = {}
                             THEN FallbackName(k - 1, th[t].count)
                             ELSE DecodedName(th[t], k - 1)

\* the exchanges of the running or last operation of a thread
DataExchange(x) == x.sel \in {"ReadKey", "WriteKey"}

\* C20: every read_key and write_key issues a key-info exchange for the key
\* immediately before its read or write exchange and uses the tag and size of
\* that answer; when the key-info exchange fails, its error is returned and no
\* read or write exchange is issued for that operation.
C20_KeyInfoFirst ==
    \A t \in Threads :
      LET log == th[t].log IN
      /\ \A j \in 1..Len(log) :
           DataExchange(log[j]) =>
             /\ j > 1
             /\ log[j - 1].sel = "GetKeyInfo" /\ log[j - 1].key = log[j].key
             /\ IsOk(log[j - 1].res)
             /\ log[j].size = log[j - 1].outSize
             /\ (log[j].sel = "WriteKey" /\ th[t].op = "set_min_speed") =>
                  log[j].bytes = F64ToSmc(th[t].argSpeed,
                                          DataType(log[j - 1].outTag, log[j - 1].outSize)).val
      /\ \A j \in 1..Len(log) :
           (log[j].sel = "GetKeyInfo" /\ IsErr(log[j].res)) =>
             /\ j < Len(log) => ~DataExchange(log[j + 1])
             /\ (th[t].op \in {"set_min_speed", "percent"} /\ th[t].phase = "idle")
                  => th[t].ret = log[j].res

C20_Witness ==
    /\ th[1].op = "set_min_speed" /\ th[1].phase = "idle"
    /\ Len(th[1].log) = 2 /\ th[1].log[2].sel = "WriteKey"
    /\ th[1].log[1].outTag = TYPE_FLT /\ hw[FanKey(0, "Mn")].bytes = th[1].log[2].bytes
    /\ th[1].fan.min_speed = 2500 * Scale

---------------------------------------------------------------------------
(* Smc::keys, as AppleComponents::new calls it *)

\* the key-at-index exchanges of the operation of thread 1, in order
IndexExchanges == SelectSeq(th[1].log, LAMBDA x : x.sel = "GetKeyFromIndex")

\* the key count the operation read from #KEY
CountRead == U32FromBe(th[1].log[2].out)

\* C21: Smc::keys reads the key count n from #KEY and then issues exactly one
\* key-at-index exchange for each index 0, 1, ..., n-1 in ascending order,
\* returning the n keys in index order; if the count read or an index exchange
\* fails, the scan stops there and the error is returned with no partial list.
C21_KeysScan ==
    LET log == th[1].log
        idx == IndexExchanges
        n == CountRead
        \* the exchanges Smc::keys makes are the first ones of the operation
        last == IF Len(log) < 2 THEN Len(log)
                ELSE IF Len(log) < 2 + n THEN Len(log) ELSE 2 + n
    IN (th[1].op = "discover" /\ Len(log) > 0) =>
         /\ log[1].sel = "GetKeyInfo" /\ log[1].key = KEY_COUNT
         /\ Len(log) >= 2 =>
              /\ IsOk(log[1].res)
              /\ log[2].sel = "ReadKey" /\ log[2].key = KEY_COUNT
         /\ Len(log) >= 3 => IsOk(log[2].res)
         /\ \A i \in 1..Len(log) :
              log[i].sel = "GetKeyFromIndex" <=> (3 <= i /\ i <= 2 + Len(idx))
         /\ Len(idx) > 0 => Len(idx) <= n
         /\ \A j \in 1..Len(idx) :
              /\ idx[j].data32 = j - 1
              /\ j < Len(idx) => IsOk(idx[j].res)
         \* a failure ends the call: nothing follows it, and no list is kept
         /\ \A i \in 1..last :
              IsErr(log[i].res) =>
                /\ i = Len(log)
                /\ th[1].phase = "idle" /\ th[1].ret = log[i].res
                /\ th[1].keys = <<>> /\ th[1].comps = <<>>
         \* the list the catalog is matched against is the n keys in index order
         /\ (Len(log) >= 2 /\ th[1].phase = "lock" /\ th[1].pc \in {"t_info", "t_read"}) =>
              /\ Len(idx) = n
              /\ th[1].keys = [j \in 1..n |-> idx[j].outKey]
              /\ th[1].keys = PresentKeys(hw)

C21_Witness ==
    /\ th[1].op = "discover" /\ th[1].phase = "lock" /\ th[1].pc = "t_info"
    /\ Len(IndexExchanges) = CountRead /\ CountRead = Cardinality(CompHwKeys)
    /\ th[1].keys[1] = "#KEY" /\ th[1].keys[CountRead] = "Tp05"

---------------------------------------------------------------------------
(* The hwmon chip of a device whose power state changes between refreshes *)

\* power_state as the kernel rewrites it; "" is also what an unreadable file
\* reads as
PowerTexts == {Text("D0\n"), Text("D3hot\n"), Text("")}

PowerChange ==
    /\ hwmon.now > -1
    /\ \E p \in PowerTexts :
         /\ p # hwmon.power
         /\ hwmon' = [hwmon EXCEPT !.power = p]
    /\ UNCHANGED <<smcVars, tui, codec>>

\* get_sensors_from_hwmon has just created the sensor of a chip with a name file
InitHwmonPower ==
    /\ session = "Disconnected" /\ strong = 0 /\ closes = 0 /\ smcs = 0
    /\ mutex = 0
    /\ hw = FanHw(0, TRUE)
    /\ th = [t \in Threads |-> OffThread]
    /\ opsLeft = 0
    /\ tui = NoTui /\ codec = NoCodec
    /\ \E interval \in Intervals, power \in PowerTexts :
         hwmon = [now |-> 0, sensor |-> HwmonSensorNew(Text("coretemp\n"), interval, 0),
                  power |-> power, refreshes |-> 0, lastScan |-> -1, lastDone |-> -1,
                  last |-> NoRefresh]

NextHwmonPower == ReadTemperatures \/ Tick \/ PowerChange

SpecHwmonPower == InitHwmonPower /\ [][NextHwmonPower]_vars

\* the power_state file names a state other than D0 and unknown
PoweredDown(power) == power.exists /\ Trim(power.text) \notin {"D0", "unknown"}

\* C22: a chip whose device has a power_state file naming a state other than
\* "D0" and "unknown" is skipped on every refresh, however long ago it was
\* last read and also on its very first refresh: the refresh returns Ok and
\* changes neither the cached readings nor the last-poll time.
C22_PoweredDownSkipped ==
    (hwmon.refreshes > 0 /\ PoweredDown(hwmon.last.power)) =>
        /\ Unchanged(hwmon.last)
        /\ hwmon.sensor = hwmon.last.before

C22_Witness ==
    /\ hwmon.refreshes > 1 /\ PoweredDown(hwmon.last.power)
    /\ hwmon.last.before.wait /\ hwmon.sensor.update_interval > 0
    /\ hwmon.last.at - hwmon.last.before.last_update > hwmon.sensor.update_interval
    /\ DOMAIN hwmon.sensor.readings # {}

---------------------------------------------------------------------------
(* LinuxComponents: Interface::refresh over the hwmon chips of a machine *)

\* impl Display for LinuxError, without the detail that follows the prefix
Display(err) == IF err = "Io" THEN "io error: " ELSE "invalid data: "

\* the chips of the machine
Chips == 1..2

RECURSIVE ComponentsRefreshFrom(_, _, _, _, _, _)
\* Interface::refresh from component i on: LinuxHardwareComponent::refresh maps
\* the error of read_temperatures to its text, and `?` returns the first one.
\* `done` records, for each component reached, what read_temperatures did
ComponentsRefreshFrom(sensors, i, now, powers, dirs, done) ==
    IF i > Len(sensors) THEN [sensors |-> sensors, ret |-> "Ok", done |-> done]
    ELSE LET res == ReadTemperaturesResult(sensors[i], now, powers[i], dirs[i])
             after == [sensors EXCEPT ![i] = res.sensor]
             rec == [ret |-> res.ret, scanned |-> res.scanned, dir |-> dirs[i]]
         IN IF res.ret # "Ok"
            THEN [sensors |-> after, ret |-> Display(res.ret), done |-> Append(done, rec)]
            ELSE ComponentsRefreshFrom(after, i + 1, now, powers, dirs, Append(done, rec))

\* what the directory of a chip may hold at a scan
LinuxDirs ==
    { [ok |-> TRUE, entries |->
         <<DirEntry("temp1_input", Text("42000\n"), Text("Core 0\n"), Absent, Absent, Absent)>>],
      [ok |-> TRUE, entries |->
         <<Plain("temp1_input", Text("47000\n")), Plain("temp2_input", Text("-1000\n"))>>],
      [ok |-> TRUE, entries |->
         <<Plain("temp1_input", Absent), Plain("temp2_input", Text("n/a"))>>],
      [ok |-> FALSE, entries |-> <<>>] }

\* Interface::refresh of the LinuxComponents
LinuxRefresh ==
    /\ hwmon.now > -1 /\ hwmon.refreshes < MaxRefreshes
    /\ \E dirs \in [Chips -> LinuxDirs] :
         LET res == ComponentsRefreshFrom(hwmon.sensors, 1, hwmon.now, hwmon.powers,
                                          dirs, <<>>) IN
         hwmon' = [hwmon EXCEPT !.sensors = res.sensors, !.refreshes = @ + 1,
                                !.ret = res.ret, !.done = res.done]
    /\ UNCHANGED <<smcVars, tui, codec>>

\* get_sensors_from_hwmon has just created the sensors
InitLinux ==
    /\ session = "Disconnected" /\ strong = 0 /\ closes = 0 /\ smcs = 0
    /\ mutex = 0
    /\ hw = FanHw(0, TRUE)
    /\ th = [t \in Threads |-> OffThread]
    /\ opsLeft = 0
    /\ tui = NoTui /\ codec = NoCodec
    /\ \E interval \in Intervals, powers \in [Chips -> {Absent, Text("D3hot\n")}] :
         hwmon = [now |-> 0,
                  sensors |-> [c \in Chips |->
                                 HwmonSensorNew(Text("chip" \o ToString(c)), interval, 0)],
                  powers |-> powers, refreshes |-> 0, ret |-> "", done |-> <<>>]

NextLinux == LinuxRefresh \/ Tick

SpecLinux == InitLinux /\ [][NextLinux]_vars

\* entry k of the directory is a temperature file whose content does not parse
Unparsable(entries, k) ==
    /\ entries[k].kind = "file"
    /\ StartsWith(entries[k].name, "temp") /\ EndsWith(entries[k].name, "_input")
    /\ entries[k].content.exists /\ ParseU32(Trim(entries[k].content.text)) < 0

\* entry k of the directory ends the scan with an I/O error
Unreadable(entries, k) ==
    \/ entries[k].kind = "ioerror"
    \/ /\ entries[k].kind = "file"
       /\ StartsWith(entries[k].name, "temp") /\ EndsWith(entries[k].name, "_input")
       /\ ~entries[k].content.exists

\* C23 as stated: on an allowed refresh of a chip, if the content of any
\* tempN_input file does not parse, the refresh returns InvalidData rather
\* than skipping the file, and the error reaches the caller of
\* Interface::refresh.
C23_UnparsableIsInvalidData ==
    \A c \in 1..Len(hwmon.done) :
      LET d == hwmon.done[c] IN
      (d.scanned /\ d.dir.ok
         /\ \E k \in 1..Len(d.dir.entries) : Unparsable(d.dir.entries, k))
        => (d.ret = "InvalidData" /\ hwmon.ret = Display("InvalidData"))

\* C23 with the first failing entry deciding the error: on an allowed refresh
\* of a chip, if the content of a tempN_input file does not parse, the refresh
\* returns an error rather than skipping the file, InvalidData unless an
\* earlier entry of the scan failed with an I/O error, and the error reaches
\* the caller of Interface::refresh, which stops at this chip.
C23_UnparsableIsError ==
    \A c \in 1..Len(hwmon.done) :
      LET d == hwmon.done[c] IN
      (d.scanned /\ d.dir.ok) =>
        \A k \in 1..Len(d.dir.entries) :
          Unparsable(d.dir.entries, k) =>
            /\ d.ret # "Ok"
            /\ hwmon.ret = Display(d.ret)
            /\ c = Len(hwmon.done)
            /\ (\A j \in 1..(k - 1) : ~Unreadable(d.dir.entries, j)) => d.ret = "InvalidData"

C23_Witness ==
    /\ Len(hwmon.done) = 2 /\ hwmon.done[2].scanned /\ hwmon.done[2].dir.ok
    /\ Len(hwmon.done[2].dir.entries) = 2 /\ Unparsable(hwmon.done[2].dir.entries, 2)
    /\ hwmon.done[2].ret = "InvalidData" /\ hwmon.ret = "invalid data: "
    /\ DOMAIN hwmon.sensors[2].readings # {}

---------------------------------------------------------------------------
(* Discovery on every host and with keys missing *)

\* processor brand strings for every platform read_platform tells apart, and
\* one it does not know
AllCpuNames ==
    {"Intel(R) Core(TM) i7", "Apple M1", "Apple M1 Pro", "Apple M1 Max",
     "Apple M1 Ultra", "Apple M2", "Apple M3"}

\* the key store of a machine that lacks the keys in `absent`
CompHwWithout(absent) ==
    [k \in CompHwKeys |->
        IF k \in absent THEN HwAbsent
        ELSE IF k = KEY_COUNT
        THEN HwEntry(TYPE_U32, 4, PutBytes(U32ToBe(Cardinality(CompHwKeys \ absent))))
        ELSE CompHw(TYPE_SP78)[k]]

InitDiscover ==
    /\ session = "Disconnected" /\ strong = 0 /\ closes = 0 /\ smcs = 0
    /\ mutex = 0
    /\ \E absent \in SUBSET {"TC0P", "Tp05"} : hw = CompHwWithout(absent)
    /\ th = [t \in Threads |-> IF t = 1 THEN IdleThread ELSE OffThread]
    /\ opsLeft = 1
    /\ tui = NoTui /\ hwmon = NoHwmon /\ codec = NoCodec

NextDiscover ==
    \/ AppleComponentsNewOn(1, AllCpuNames)
    \/ Exchange(1, RefreshOutcomes)

SpecDiscover == InitDiscover /\ [][NextDiscover]_vars

\* the components bound to the key, among those built so far
CompsOf(key) == {i \in 1..Len(th[1].comps) : CompKey(th[1].comps[i]) = key}

\* C24: for every host platform mask that read_platform can produce and every
\* live key set, discovery creates at most one component per key, labelled by
\* the catalog entry whose mask covers the host: key Tp05 gives "CPU
\* efficiency core 1" on an M2 host and "CPU performance core 2" on an
\* M1-series host, never both.
C24_OneComponentPerKey ==
    th[1].op = "discover" =>
      /\ th[1].platform \in {0, INTEL, M1, M1_PRO, M1_MAX, M1_ULTRA, M2}
      /\ \A key \in Range(KeyOrder) : Cardinality(CompsOf(key)) <= 1
      /\ \A i \in 1..Len(th[1].comps) :
           LET s == SENSORS[th[1].comps[i].sensor] IN
           /\ PlatformContains(s.platforms, th[1].platform)
           /\ KeyPresent(s.key)
           /\ s.key = "Tp05" =>
                /\ th[1].platform = M2 => s.name = "CPU efficiency core 1"
                /\ PlatformContains(ALL_M1, th[1].platform)
                     => s.name = "CPU performance core 2"
                /\ th[1].platform = M2 \/ PlatformContains(ALL_M1, th[1].platform)
      \* with its key live and its reads answered, the entry of the host is there
      /\ (Discovered(1) /\ AllOk(1) /\ KeyPresent("Tp05") /\ th[1].platform # INTEL)
           => Cardinality(CompsOf("Tp05")) = 1

C24_Witness ==
    /\ Discovered(1) /\ th[1].platform = M1_ULTRA
    /\ \E i \in CompsOf("Tp05") :
         SENSORS[th[1].comps[i].sensor].name = "CPU performance core 2"
    /\ Cardinality(CompsOf("TC0P")) = 0 /\ ~KeyPresent("TC0P")

---------------------------------------------------------------------------
(* Fan::new with a name supplied *)

\* C25: constructing a fan with an explicitly supplied name,
\* Smc::fan(id, Some(name)), always returns Ok whatever the driver answers
\* (Smc::fans relies on this when it substitutes a fallback name).
C25_NamedFanAlwaysOk ==
    \A t \in Threads :
        (th[t].op = "fan_new" /\ th[t].phase = "idle") =>
            (IsOk(th[t].ret) /\ th[t].fan # NoFan)

---------------------------------------------------------------------------
(* Machines without the mode key F{id}Md: the mode goes through FS!.  A    *)
(* fan is constructed and its mode set; then a second Fan is constructed   *)
(* for the same id, which reads the mode back.                             *)

\* the driver answers, or fails the exchange
BitmaskOutcomes == {<<kIOReturnSuccess, SmcResultSuccess>>,
                    <<kIOReturnSuccess, SmcResultKeyNotFound>>}

\* the values FS! starts with
Bitmasks == 0..3

InitBitmask ==
    /\ session = "Open" /\ strong = 1 /\ closes = 0 /\ smcs = 1
    /\ mutex = 0
    /\ \E fs \in Bitmasks : hw = FanHw(fs, FALSE)
    /\ th = [t \in Threads |-> IdleThread]
    /\ opsLeft = 3
    /\ tui = NoTui /\ hwmon = NoHwmon /\ codec = NoCodec

\* set_mode has returned Ok on the first fan
ModeSet == th[1].op = "set_mode" /\ th[1].phase = "idle" /\ IsOk(th[1].ret)

NextBitmask ==
    \/ \E id \in FanIds : th[2].op = "none" /\ FanNew(1, id)
    \/ \E m \in Modes : th[1].op = "fan_new" /\ SetMode(1, m)
    \/ ModeSet /\ FanNew(2, th[1].fan.id)
    \/ \E t \in Threads : Exchange(t, BitmaskOutcomes)

SpecBitmask == InitBitmask /\ [][NextBitmask]_vars

\* C26: on hardware without the primary mode key, after set_mode(m) returned
\* Ok, reading the mode through the bitmask fallback, as the construction of
\* a Fan for the same id does, yields m, for m = Auto and for m = Forced.
C26_BitmaskRoundTrip ==
    (ModeSet /\ th[2].op = "fan_new" /\ th[2].phase = "idle" /\ IsOk(th[2].ret)) =>
        /\ th[2].fan.id = th[1].fan.id
        /\ th[2].fan.mode = th[1].argMode
        /\ th[2].fan.mode = th[1].fan.mode

---------------------------------------------------------------------------
(* Two threads setting the mode of two fans through FS! *)

\* C27: when two fans with different ids share one session and two threads
\* call set_mode on them concurrently through the bitmask fallback, both
\* changes take effect: once both calls have returned Ok, bit id of FS! has
\* the requested value for each of the two fans.
C27_NoLostUpdate ==
    (/\ ~KeyPresent(FanKey(0, "Md"))
     /\ \A t \in Threads : th[t].op = "set_mode" /\ th[t].phase = "idle" /\ IsOk(th[t].ret))
      => \A t \in Threads :
            BitSet(U16FromBe(hw[KEY_FS].bytes), th[t].fan.id) <=> th[t].argMode = "Forced"

---------------------------------------------------------------------------
(* A failed Fan::set_current_speed *)

\* C28: if set_current_speed returns an error, the fan is as it was before
\* the call: neither the mode held by the hardware nor the mode cached in the
\* Fan has been changed to Forced, also when the error comes from the write
\* of the F{id}Tg target key after the range guard passed.
C28_FailedSetSpeedLeavesFan ==
    \A t \in Threads :
        (th[t].op = "set_current_speed" /\ th[t].phase = "idle" /\ IsErr(th[t].ret)) =>
            /\ th[t].fan = th[t].pre
            /\ \A j \in LogIdx(t) :
                 ~(th[t].log[j].sel = "WriteKey" /\ IsOk(th[t].log[j].res))

---------------------------------------------------------------------------
(* The speed range of a Fan *)

\* C29: every Fan satisfies min_speed < max_speed after construction
\* (whichever of F{id}Mn and F{id}Mx is readable, the other taking its
\* default) and after any sequence of accepted or rejected set_min_speed
\* calls, so the denominator of percent() is always positive.
C29_MinBelowMax ==
    \A t \in Threads :
        (th[t].phase = "idle" /\ th[t].fan # NoFan) =>
            th[t].fan.min_speed < th[t].fan.max_speed

---------------------------------------------------------------------------
(* set_mode through FS! for every fan the bitmask has a bit for *)

\* the fans a u16 bitmask has a bit for
MaskBits == 0..15

\* values of FS!: both bytes run through every pattern, and the patterns of
\* alternating and single bits
MaskValues ==
    {x * 257 : x \in 0..255} \cup (0..15) \cup {255, 21845, 32768, 43690, 65280}

\* a machine whose only fan key is FS!
MaskHw(fs) == [k \in {KEY_FS} |-> HwEntry(TYPE_U16, 2, PutBytes(U16ToBe(fs)))]

\* the Fan that Fan::new builds on such a machine
MaskFan(id, fs) ==
    [id |-> id, min_speed |-> DefaultMinSpeed, max_speed |-> DefaultMaxSpeed,
     mode |-> FanModeFromBool(ReadIsManaged(fs, id))]

InitMask ==
    /\ session = "Open" /\ strong = 2 /\ closes = 0 /\ smcs = 1
    /\ mutex = 0
    /\ \E fs \in MaskValues, id \in MaskBits :
         /\ hw = MaskHw(fs)
         /\ th = [t \in Threads |->
                    IF t = 1 THEN [IdleThread EXCEPT !.fan = MaskFan(id, fs)] ELSE OffThread]
    /\ opsLeft = 1
    /\ tui = NoTui /\ hwmon = NoHwmon /\ codec = NoCodec

NextMask ==
    \/ \E m \in Modes : SetMode(1, m)
    \/ Exchange(1, ConcOutcomes)

SpecMask == InitMask /\ [][NextMask]_vars

\* C30: a set_mode call that goes through the bitmask fallback changes at
\* most bit id of the FS! bitmask: in the value it writes, the bit of every
\* other fan equals the bit in the value it read just before, for every fan
\* id below 16 and every bitmask value.
C30_OtherBitsKept ==
    LET log == th[1].log IN
    \A j \in LogIdx(1) :
      (log[j].sel = "WriteKey" /\ log[j].key = KEY_FS) =>
        /\ j >= 3
        /\ log[j - 2].sel = "ReadKey" /\ log[j - 2].key = KEY_FS /\ IsOk(log[j - 2].res)
        /\ LET read == U16FromBe(log[j - 2].out)
               written == U16FromBe(log[j].bytes)
           IN /\ \A k \in MaskBits :
                   k # th[1].fan.id => (BitSet(written, k) <=> BitSet(read, k))
              /\ BitSet(written, th[1].fan.id) <=> th[1].argMode = "Forced"
              /\ written # read
              /\ IsOk(log[j].res) => U16FromBe(hw[KEY_FS].bytes) = written

C30_Witness ==
    /\ th[1].op = "set_mode" /\ th[1].phase = "idle" /\ IsOk(th[1].ret)
    /\ th[1].fan.id = 15 /\ th[1].argMode = "Auto"
    /\ Len(th[1].log) = 5 /\ U16FromBe(th[1].log[3].out) = 43690
    /\ U16FromBe(hw[KEY_FS].bytes) = 43690 - 32768

=============================================================================
